---- MODULE Spec2Model ----
(***************************************************************************)
(* Model of the extraction and inheritance-resolution engine of the        *)
(* component documentation generator (src/src/doc-generator.ts and         *)
(* src/src/source-extractor.ts).                                           *)
(*                                                                         *)
(* Representation of text.  Names that the code inspects by character      *)
(* (class names, property names, event names) are sequences of one-        *)
(* character strings; type texts, initializers and parameter signatures    *)
(* are sequences of lexical tokens; file names are records [stem, ext];    *)
(* paths are sequences of file names relative to componentsPath.  An       *)
(* optional value (a field that may be undefined, or a null result) is a   *)
(* sequence of length 0 or 1.  A source text is the record of what the     *)
(* TypeScript parser and the regular expressions of the code find in it,   *)
(* in traversal order.                                                     *)
(***************************************************************************)
EXTENDS Integers, Sequences, FiniteSets, TLC

VARIABLES
    fs,              \* the file system below componentsPath: path -> node
    config,          \* DocumentationGenerator.config
    basePropsCache,  \* DocumentationGenerator.basePropsCache (None = null)
    status,          \* "idle", or the unbounded recursion the run is stuck in
    call,            \* the last generateComponentDoc call: its arguments
    returned,        \* its return value: None (null) or Some(ComponentDoc)
    log,             \* console output of the last call
    resolutions,     \* getInheritedProps invocations of the last call, in order
    firstResolved,   \* ancestor name -> the list its first resolution returned
    rootReads,       \* root location -> how often getBaseProps read it in the run
    discovered,      \* the list findAllComponents returned to the last command
    docs,            \* the list generateAllDocs returned to the last command
    command,         \* the options of the last generate command (None = none was run)
    exit             \* how it ended (None = it did not end)

vars == <<fs, config, basePropsCache, status, call, returned, log,
          resolutions, firstResolved, rootReads, discovered, docs, command,
          exit>>

-----------------------------------------------------------------------------
(* Optional values and generic sequence helpers                            *)

None == <<>>
Some(v) == <<v>>
IsSome(o) == o /= <<>>
Val(o) == o[1]

Range(s) == {s[i] : i \in 1..Len(s)}
Last(s) == s[Len(s)]
Front(s) == SubSeq(s, 1, Len(s) - 1)

RECURSIVE Concat(_)
Concat(s) == IF s = <<>> THEN "" ELSE Head(s) \o Concat(Tail(s))

RECURSIVE Flatten(_)
Flatten(ss) == IF ss = <<>> THEN <<>> ELSE Head(ss) \o Flatten(Tail(ss))

\* [...new Set(s)]: first occurrences, in order
RECURSIVE Dedup(_)
Dedup(s) ==
    IF s = <<>> THEN <<>>
    ELSE LET f == Dedup(Front(s))
         IN IF Last(s) \in Range(f) THEN f ELSE Append(f, Last(s))

-----------------------------------------------------------------------------
(* Character-level string operations                                       *)

UpperChars == {"A", "B", "C", "G", "I", "L", "N", "P", "S", "T", "W", "X"}

\* String.prototype.toLowerCase, one character
LowerChar(c) ==
    CASE c = "A" -> "a" [] c = "B" -> "b" [] c = "C" -> "c" [] c = "G" -> "g"
      [] c = "I" -> "i" [] c = "L" -> "l" [] c = "N" -> "n" [] c = "P" -> "p"
      [] c = "S" -> "s" [] c = "T" -> "t" [] c = "W" -> "w" [] c = "X" -> "x"
      [] OTHER -> c

toLowerCase(s) == [i \in 1..Len(s) |-> LowerChar(s[i])]

\* the class [a-z0-9] among the characters the model uses
IsLowerOrDigit(c) == c \notin UpperChars /\ c /= "-" /\ c /= "."

endsWith(s, suffix) ==
    /\ Len(s) >= Len(suffix)
    /\ SubSeq(s, Len(s) - Len(suffix) + 1, Len(s)) = suffix

startsWith(s, prefix) ==
    /\ Len(s) >= Len(prefix)
    /\ SubSeq(s, 1, Len(prefix)) = prefix

\* s.replace(/<suffix>$/, '')
StripSuffix(s, suffix) ==
    IF endsWith(s, suffix) THEN SubSeq(s, 1, Len(s) - Len(suffix)) ELSE s

\* str.replace(/([a-z0-9])([A-Z])/g, '$1-$2').toLowerCase()
RECURSIVE InsertHyphens(_)
InsertHyphens(s) ==
    IF Len(s) < 2 THEN s
    ELSE IF IsLowerOrDigit(s[1]) /\ s[2] \in UpperChars
         THEN <<s[1], "-">> \o InsertHyphens(Tail(s))
         ELSE <<s[1]>> \o InsertHyphens(Tail(s))

toKebab(s) == toLowerCase(InsertHyphens(s))

Props == <<"P", "r", "o", "p", "s">>
Component == <<"C", "o", "m", "p", "o", "n", "e", "n", "t">>
Styles == <<"S", "t", "y", "l", "e", "s">>
State == <<"S", "t", "a", "t", "e">>
Wm == <<"W", "m">>
BaseProps == <<"B", "a", "s", "e">> \o Props

-----------------------------------------------------------------------------
(* Source texts.                                                           *)
(*   decls   : the class / interface / type-alias declarations, in the     *)
(*             order ts.forEachChild visits them                           *)
(*   calls   : the invokeEventCallback('name', [args]) call sites           *)
(*   imports : the module specifiers of the  from '...'  clauses           *)
(*   styles  : the variable declarations and call expressions              *)
(*   blank   : the text is the empty string                                *)

Text(decls, calls, imports, styles) ==
    [blank |-> FALSE, decls |-> decls, calls |-> calls, imports |-> imports,
     styles |-> styles]
BlankText ==
    [blank |-> TRUE, decls |-> <<>>, calls |-> <<>>, imports |-> <<>>,
     styles |-> <<>>]

\* a declaration: kind "class" | "interface" | "type"; heritage = the types of
\* its extends clause; literal = (type alias only) the aliased type is a type
\* literal; members = its property-like members; methods = its method members
Decl(kind, name, heritage, members, methods) ==
    [kind |-> kind, name |-> name, heritage |-> heritage, literal |-> TRUE,
     members |-> members, methods |-> methods]

\* a member: isProperty = it is a PropertyDeclaration / PropertySignature;
\* named = the member has a name of its own (an index signature has none, its
\* name field is the name of its parameter)
Member(name, type, optional, init) ==
    [isProperty |-> TRUE, named |-> TRUE, name |-> name, type |-> type,
     optional |-> optional, init |-> init]
OtherMember(name) ==
    [isProperty |-> FALSE, named |-> FALSE, name |-> name, type |-> None,
     optional |-> FALSE, init |-> None]
\* a method-shaped member  name(...): type  of a Props declaration
MethodMember(name) ==
    [isProperty |-> FALSE, named |-> TRUE, name |-> name, type |-> None,
     optional |-> FALSE, init |-> None]

-----------------------------------------------------------------------------
(* TypeScriptParser.extractProps                                           *)

\* the default value taken from an initializer text
DefaultValueOf(initText) ==
    IF initText = <<"null", "as", "any">> THEN <<"null">>
    ELSE IF Len(initText) >= 3 /\ SubSeq(initText, Len(initText) - 1, Len(initText)) = <<"as", "any">>
         THEN LET i == CHOOSE k \in 2..(Len(initText) - 1) :
                          /\ initText[k] = "as" /\ initText[k + 1] = "any"
                          /\ \A j \in 2..(k - 1) : ~(initText[j] = "as" /\ initText[j + 1] = "any")
              IN SubSeq(initText, 1, i - 1) \o SubSeq(initText, i + 2, Len(initText))
         ELSE initText

\* faulty variant: the question token is not looked at
OwnPropRequired(m, withDefault) ==
    [name |-> m.name,
     type |-> IF IsSome(m.type) THEN Val(m.type) ELSE <<"any">>,
     optional |-> FALSE,
     defaultValue |-> IF withDefault /\ IsSome(m.init)
                      THEN Some(DefaultValueOf(Val(m.init))) ELSE None,
     inherited |-> FALSE,
     inheritedFrom |-> None]

\* the PropInfo pushed for one member of a class (withDefault) or of an
\* interface / type literal
OwnProp(m, withDefault) ==
    [name |-> m.name,
     type |-> IF IsSome(m.type) THEN Val(m.type) ELSE <<"any">>,
     optional |-> m.optional,
     defaultValue |-> IF withDefault /\ IsSome(m.init)
                      THEN Some(DefaultValueOf(Val(m.init))) ELSE None,
     inherited |-> FALSE,
     inheritedFrom |-> None]

\* faulty variant: every member is pushed, whatever its kind
MemberPropsAll(members, withDefault) ==
    [i \in 1..Len(members) |-> OwnProp(members[i], withDefault)]

MemberProps(members, withDefault) ==
    LET props == SelectSeq(members, LAMBDA m : m.isProperty)
    IN [i \in 1..Len(props) |-> OwnProp(props[i], withDefault)]

\* heritage.types[0] of the extends clause
HeritageBase(d) == IF d.heritage = <<>> THEN None ELSE Some(d.heritage[1])

\* does the visitor assign result at this declaration
IsPropsDecl(d) ==
    /\ endsWith(d.name, Props)
    /\ \/ d.kind = "class"
       \/ d.kind = "interface"
       \/ d.kind = "type" /\ d.literal

PropsOfDecl(d) ==
    [props |-> MemberProps(d.members, d.kind = "class"),
     className |-> d.name,
     baseClass |-> IF d.kind = "type" THEN None ELSE HeritageBase(d)]

\* faulty variant: the first Props declaration visited is the one kept
RECURSIVE VisitPropsFirst(_, _)
VisitPropsFirst(decls, result) ==
    IF decls = <<>> THEN result
    ELSE VisitPropsFirst(Tail(decls),
                         IF IsPropsDecl(Head(decls)) /\ ~IsSome(result)
                         THEN Some(PropsOfDecl(Head(decls)))
                         ELSE result)

\* result is overwritten at every Props declaration visited
RECURSIVE VisitProps(_, _)
VisitProps(decls, result) ==
    IF decls = <<>> THEN result
    ELSE VisitProps(Tail(decls),
                    IF IsPropsDecl(Head(decls)) THEN Some(PropsOfDecl(Head(decls)))
                    ELSE result)

extractProps(sourceCode) == VisitProps(sourceCode.decls, None)

-----------------------------------------------------------------------------
(* TypeScriptParser.extractMethods                                         *)

\* a method member: modifiers as keyword texts, returnType optional,
\* params = [isIdentifier, name, optional, type]
Method(name, modifiers, returnType, params) ==
    [name |-> name, modifiers |-> modifiers, returnType |-> returnType,
     params |-> params]
Param(name, optional, type) ==
    [isIdentifier |-> TRUE, name |-> name, optional |-> optional, type |-> type]

LifecycleNames ==
    {"constructor", "render", "componentDidMount", "componentWillUnmount",
     "shouldComponentUpdate", "componentDidUpdate"}

RECURSIVE VisibilityOf(_, _)
VisibilityOf(modifiers, visibility) ==
    IF modifiers = <<>> THEN visibility
    ELSE VisibilityOf(Tail(modifiers),
                      IF Head(modifiers) = "private" THEN "private"
                      ELSE IF Head(modifiers) = "protected" THEN "protected"
                      ELSE visibility)

ParameterInfo(p) ==
    [name |-> p.name, type |-> IF IsSome(p.type) THEN Val(p.type) ELSE <<"any">>,
     optional |-> p.optional]

MethodInfo(m) ==
    LET ps == SelectSeq(m.params, LAMBDA p : p.isIdentifier)
    IN [name |-> m.name,
        visibility |-> VisibilityOf(m.modifiers, "public"),
        returnType |-> IF IsSome(m.returnType) THEN Val(m.returnType) ELSE <<"void">>,
        parameters |-> [i \in 1..Len(ps) |-> ParameterInfo(ps[i])]]

\* faulty variant: a class named ...State is taken for a component class
IsComponentClassOrState(d) ==
    /\ d.kind = "class"
    /\ ~endsWith(d.name, Props) /\ ~endsWith(d.name, Styles)

IsComponentClass(d) ==
    /\ d.kind = "class"
    /\ ~endsWith(d.name, Props) /\ ~endsWith(d.name, Styles) /\ ~endsWith(d.name, State)

MethodsOfDecl(d) ==
    LET kept == SelectSeq(d.methods, LAMBDA m :
                    /\ m.name \notin LifecycleNames
                    /\ VisibilityOf(m.modifiers, "public") = "public")
    IN [methods |-> [i \in 1..Len(kept) |-> MethodInfo(kept[i])],
        className |-> d.name]

RECURSIVE VisitMethods(_, _)
VisitMethods(decls, result) ==
    IF decls = <<>> THEN result
    ELSE VisitMethods(Tail(decls),
                      IF IsComponentClass(Head(decls)) THEN Some(MethodsOfDecl(Head(decls)))
                      ELSE result)

extractMethods(sourceCode) == VisitMethods(sourceCode.decls, None)

-----------------------------------------------------------------------------
(* TypeScriptParser.extractStyleClasses                                    *)

\* statements of a style source, in traversal order:
\*   a variable declaration  const <name> = <init>
\*   a call  <callee>(<first argument>, ...)
VarDecl(name, isStringLiteral, text) ==
    [k |-> "var", name |-> name, isStringLiteral |-> isStringLiteral, text |-> text,
     callee |-> "", calleeForm |-> "", arg |-> None]
\* calleeForm: "identifier" (addStyle(...)), "property" (x.addStyle(...)), "other"
CallExpr(calleeForm, callee, arg) ==
    [k |-> "call", name |-> "", isStringLiteral |-> FALSE, text |-> "",
     callee |-> callee, calleeForm |-> calleeForm, arg |-> arg]

\* a first argument: a string literal, a binary expression (its operands, joined
\* by +), or anything else
StringLit(text) == [k |-> "string", text |-> text, operands |-> <<>>]
Binary(operands) == [k |-> "binary", text |-> "", operands |-> operands]
OtherExpr == [k |-> "other", text |-> "", operands |-> <<>>]
Ident(name) == [k |-> "ident", text |-> name]
Lit(text) == [k |-> "string", text |-> text]

\* firstArg.getText(sourceFile)
RECURSIVE OperandsText(_)
OperandsText(ops) ==
    IF ops = <<>> THEN ""
    ELSE LET h == IF Head(ops).k = "ident" THEN Head(ops).text
                  ELSE "'" \o Head(ops).text \o "'"
         IN IF Len(ops) = 1 THEN h ELSE h \o " + " \o OperandsText(Tail(ops))

\* DEFAULT_CLASS replaced by the quoted default class, quotes and + removed
RECURSIVE OperandsResolved(_, _)
OperandsResolved(ops, defaultClass) ==
    IF ops = <<>> THEN ""
    ELSE (IF Head(ops).k = "ident" /\ Head(ops).text = "DEFAULT_CLASS"
          THEN defaultClass ELSE Head(ops).text)
         \o OperandsResolved(Tail(ops), defaultClass)

ResolvedClassName(arg, defaultClass) ==
    IF /\ \E i \in 1..Len(arg.operands) :
              arg.operands[i].k = "ident" /\ arg.operands[i].text = "DEFAULT_CLASS"
       /\ defaultClass /= ""
    THEN OperandsResolved(arg.operands, defaultClass)
    ELSE OperandsText(arg.operands)

PushUnique(list, x) == IF x \in Range(list) THEN list ELSE Append(list, x)

\* one node of the traversal applied to the visitor's two variables
VisitStyle(st, acc) ==
    IF st.k = "var"
    THEN IF st.name = "DEFAULT_CLASS" /\ st.isStringLiteral
         THEN [acc EXCEPT !.defaultClass = st.text]
         ELSE acc
    ELSE IF /\ st.calleeForm \in {"identifier", "property"}
            /\ st.callee = "addStyle"
            /\ IsSome(st.arg)
         THEN LET firstArg == Val(st.arg)
              IN IF firstArg.k = "string"
                 THEN [acc EXCEPT !.styleClasses = PushUnique(@, firstArg.text)]
                 ELSE IF firstArg.k = "binary"
                      THEN [acc EXCEPT !.styleClasses =
                                PushUnique(@, ResolvedClassName(firstArg, acc.defaultClass))]
                      ELSE acc
         ELSE acc

RECURSIVE VisitStyles(_, _)
VisitStyles(stmts, acc) ==
    IF stmts = <<>> THEN acc
    ELSE VisitStyles(Tail(stmts), VisitStyle(Head(stmts), acc))

extractStyleClasses(sourceCode) ==
    LET acc == VisitStyles(sourceCode.styles, [defaultClass |-> "", styleClasses |-> <<>>])
    IN IF acc.defaultClass /= "" \/ Len(acc.styleClasses) > 0 THEN Some(acc) ELSE None

-----------------------------------------------------------------------------
(* TypeScriptParser.extractEvents, extractEventCallbacks and               *)
(* DocumentationGenerator.extractEventParameters                           *)

On == <<"o", "n">>

IsEventProp(prop) ==
    /\ startsWith(prop.name, On)
    /\ (prop.type = <<"Function">> \/ "=>" \in Range(prop.type))

extractEvents(props) ==
    LET evs == SelectSeq(props, IsEventProp)
    IN [i \in 1..Len(evs) |-> [name |-> evs[i].name, type |-> evs[i].type]]

\* a call site invokeEventCallback('<name>', [<args>]); args are the texts
\* between the commas, trimmed
Invoke(name, args) == [name |-> name, args |-> args]

RECURSIVE JoinComma(_)
JoinComma(list) ==
    IF Len(list) <= 1 THEN list
    ELSE <<Head(list), ",">> \o JoinComma(Tail(list))

CallbackParameters(args) ==
    LET paramList == SelectSeq(args, LAMBDA p :
                        p /= "" /\ p /= "this.props.target" /\ p /= "target")
    IN IF Len(paramList) > 0 THEN <<"(">> \o JoinComma(paramList) \o <<")">>
       ELSE <<"(", ")">>

\* faulty variant: a later call site of a name replaces the signature the
\* name has
RECURSIVE ScanCallbacksLast(_, _)
ScanCallbacksLast(calls, events) ==
    IF calls = <<>> THEN events
    ELSE ScanCallbacksLast(Tail(calls),
            IF \E i \in 1..Len(events) : events[i].name = Head(calls).name
            THEN [i \in 1..Len(events) |->
                     IF events[i].name = Head(calls).name
                     THEN [events[i] EXCEPT !.parameters = CallbackParameters(Head(calls).args)]
                     ELSE events[i]]
            ELSE Append(events, [name |-> Head(calls).name,
                                 parameters |-> CallbackParameters(Head(calls).args)]))

\* the scan keeps the first call site of every event name
RECURSIVE ScanCallbacks(_, _)
ScanCallbacks(calls, events) ==
    IF calls = <<>> THEN events
    ELSE ScanCallbacks(Tail(calls),
            IF \E i \in 1..Len(events) : events[i].name = Head(calls).name
            THEN events
            ELSE Append(events, [name |-> Head(calls).name,
                                 parameters |-> CallbackParameters(Head(calls).args)]))

extractEventCallbacks(sourceCode) == ScanCallbacks(sourceCode.calls, <<>>)

\* eventType.match(/\((.*?)\)\s*=>/): the leftmost "(" that has a ")" directly
\* followed by "=>" after it, and the nearest such ")"
extractEventParameters(eventType) ==
    IF eventType = <<"Function">> THEN <<"(", ")">>
    ELSE LET Closes(i, j) == /\ i < j /\ j < Len(eventType)
                             /\ eventType[i] = "(" /\ eventType[j] = ")"
                             /\ eventType[j + 1] = "=>"
             Opens == {i \in 1..Len(eventType) : \E j \in 1..Len(eventType) : Closes(i, j)}
         IN IF Opens = {} THEN eventType
            ELSE LET i == CHOOSE a \in Opens : \A b \in Opens : a <= b
                     j == CHOOSE a \in 1..Len(eventType) :
                              Closes(i, a) /\ \A b \in 1..Len(eventType) : Closes(i, b) => a <= b
                 IN <<"(">> \o SubSeq(eventType, i + 1, j - 1) \o <<")">>

-----------------------------------------------------------------------------
(* The file system (fs, path) as the code uses it.  A node is a directory  *)
(* (entries = readdirSync order) or a file; a file body is a source text,  *)
(* a JSON source map (sources = its sourcesContent, None when the field is *)
(* missing) or bytes that are neither.                                     *)

FileName(stem, ext) == [stem |-> stem, ext |-> ext]
DirName(name) == FileName(name, "")

EmptyText == Text(<<>>, <<>>, <<>>, <<>>)
NoBody == [fmt |-> "none", text |-> EmptyText, sources |-> None]
DirNode(entries) == [kind |-> "dir", readable |-> TRUE, entries |-> entries, body |-> NoBody]
FileNode(body) == [kind |-> "file", readable |-> TRUE, entries |-> <<>>, body |-> body]
Unreadable(node) == [node EXCEPT !.readable = FALSE]
TextBody(text) == [fmt |-> "text", text |-> text, sources |-> None]
MapBody(sources) == [fmt |-> "map", text |-> EmptyText, sources |-> sources]
GarbageBody == [fmt |-> "garbage", text |-> EmptyText, sources |-> None]

\* a source map whose sourcesContent[0] is the given text
SourceMapOf(text) == FileNode(MapBody(Some(<<text>>)))
TextFile(text) == FileNode(TextBody(text))

existsSync(p) == p \in DOMAIN fs
\* fs.readdirSync throws unless p is a readable directory
CanReaddir(p) == existsSync(p) /\ fs[p].kind = "dir" /\ fs[p].readable
readdirSync(p) == fs[p].entries
\* fs.readFileSync throws unless p is a readable file
CanReadFile(p) == existsSync(p) /\ fs[p].kind = "file" /\ fs[p].readable
\* the content read as UTF-8 text; a JSON or binary body holds no declarations
readFileSync(p) == IF fs[p].body.fmt = "text" THEN fs[p].body.text ELSE EmptyText

\* path.basename
basename(p) == Last(p).stem \o Last(p).ext

\* a value used as a condition: a non-null, non-empty string
Truthy(t) == IsSome(t) /\ ~Val(t).blank

Err(msg, about) == [level |-> "error", msg |-> msg, about |-> about]
\* faulty variant: the message goes to console.error
WarnAsError(msg, about) == [level |-> "error", msg |-> msg, about |-> about]
Warn(msg, about) == [level |-> "warn", msg |-> msg, about |-> about]

-----------------------------------------------------------------------------
(* SourceExtractor                                                         *)

\* readSourceMap: the parsed map, or null after logging the error
readSourceMap(mapFilePath) ==
    IF CanReadFile(mapFilePath) /\ fs[mapFilePath].body.fmt = "map"
    THEN [val |-> Some(fs[mapFilePath].body), log |-> <<>>]
    ELSE [val |-> None, log |-> <<Err("Error reading source map", mapFilePath)>>]

\* extractSourceContent(mapFilePath, 0)
extractSourceContent(mapFilePath) ==
    LET sm == readSourceMap(mapFilePath)
    IN IF ~IsSome(sm.val) THEN [val |-> None, log |-> sm.log]
       ELSE IF ~IsSome(Val(sm.val).sources) \/ Len(Val(Val(sm.val).sources)) = 0
            THEN [val |-> None, log |-> <<Err("No source content found", mapFilePath)>>]
            ELSE [val |-> Some(Val(Val(sm.val).sources)[1]), log |-> <<>>]

\* files.find(f => ...): the first entry in the set, None if there is none
FirstOf(hits) == IF hits = <<>> THEN None ELSE Some(hits[1])

\* one try { readFileSync } catch { console.error } of the direct-source branch
TryRead(p) ==
    IF CanReadFile(p) THEN [val |-> Some(readFileSync(p)), log |-> <<>>]
    ELSE [val |-> None, log |-> <<Err("Error reading", p)>>]

\* one artifact of the compiled branch: assigned only when the content is truthy
ArtifactSource(componentDir, files, ext) ==
    LET f == FirstOf(SelectSeq(files, LAMBDA n : n.ext = ext))
    IN IF ~IsSome(f) THEN [val |-> None, log |-> <<>>]
       ELSE LET c == extractSourceContent(Append(componentDir, Val(f)))
            IN [val |-> IF Truthy(c.val) THEN c.val ELSE None, log |-> c.log]

\* extractComponentSources, for a directory readdirSync can list
extractComponentSources(componentDir) ==
    LET files == readdirSync(componentDir)
        indexTsx == FirstOf(SelectSeq(files, LAMBDA f :
                        f = FileName("index", ".tsx") \/ f = FileName("index", ".ts")))
    IN IF IsSome(indexTsx)
       THEN LET content == TryRead(Append(componentDir, Val(indexTsx)))
                typesFile == FirstOf(SelectSeq(files, LAMBDA f :
                                 \/ f = FileName("types", ".ts") \/ f = FileName("types", ".tsx")
                                 \/ f.ext = ".types.ts"))
                types == IF IsSome(typesFile) THEN TryRead(Append(componentDir, Val(typesFile)))
                         ELSE [val |-> None, log |-> <<>>]
                stylesFile == FirstOf(SelectSeq(files, LAMBDA f :
                                 \/ f = FileName("styles", ".ts") \/ f = FileName("styles", ".tsx")
                                 \/ f.ext = ".styles.ts" \/ f.ext = ".styles.tsx"))
                styles == IF IsSome(stylesFile) THEN TryRead(Append(componentDir, Val(stylesFile)))
                          ELSE [val |-> None, log |-> <<>>]
            IN [props |-> IF IsSome(types.val) THEN types.val ELSE content.val,
                component |-> content.val,
                styles |-> styles.val,
                log |-> content.log \o types.log \o styles.log]
       ELSE LET props == ArtifactSource(componentDir, files, ".props.js.map")
                component == ArtifactSource(componentDir, files, ".component.js.map")
                styles == ArtifactSource(componentDir, files, ".styles.js.map")
            IN [props |-> props.val, component |-> component.val, styles |-> styles.val,
                log |-> props.log \o component.log \o styles.log]

-----------------------------------------------------------------------------
(* Bounds of the model                                                     *)

\* getInheritedProps frames explored on one ancestor chain; every acyclic
\* chain of the file systems below is shorter, so only a chain that runs in
\* a cycle reaches it
MaxChain == 4
\* generateComponentDoc frames explored below one top-level call
MaxNesting == 3
\* reads of one root location that are counted; further reads leave the count
MaxRootReads == 3

-----------------------------------------------------------------------------
(* DocumentationGenerator: ancestor resolution                             *)

\* searchForFile: depth-first, in directory order; a directory that cannot be
\* listed yields null
RECURSIVE searchForFile(_, _)
RECURSIVE SearchEntries(_, _, _)
SearchEntries(dir, entries, targetFileName) ==
    IF entries = <<>> THEN None
    ELSE LET fullPath == Append(dir, Head(entries))
             found == IF fs[fullPath].kind = "dir"
                      THEN searchForFile(fullPath, targetFileName)
                      ELSE IF Head(entries) = targetFileName THEN Some(fullPath) ELSE None
         IN IF IsSome(found) THEN found
            ELSE SearchEntries(dir, Tail(entries), targetFileName)
searchForFile(dir, targetFileName) ==
    IF CanReaddir(dir) THEN SearchEntries(dir, readdirSync(dir), targetFileName) ELSE None

\* the candidate file stems of findParentPropsFile, deduplicated
Candidates(className) ==
    LET baseName == StripSuffix(StripSuffix(className, Props), Component)
        noPrefix == SubSeq(baseName, 3, Len(baseName))
    IN Dedup(<<toLowerCase(baseName), toKebab(baseName)>>
             \o (IF startsWith(baseName, Wm)
                 THEN <<toLowerCase(noPrefix), toKebab(noPrefix)>> ELSE <<>>))

SearchPaths == <<(<<DirName("components")>>), (<<DirName("core")>>)>>

RECURSIVE SearchRoots(_, _)
SearchRoots(searchPaths, propsFileName) ==
    IF searchPaths = <<>> THEN None
    ELSE LET found == IF existsSync(Head(searchPaths))
                      THEN searchForFile(Head(searchPaths), propsFileName) ELSE None
         IN IF IsSome(found) THEN found ELSE SearchRoots(Tail(searchPaths), propsFileName)

\* faulty variant: the source roots are the outer loop, so that any candidate
\* found below 'components' wins over every candidate below 'core'
RECURSIVE CandidatesInRoot(_, _)
CandidatesInRoot(searchPath, candidates) ==
    IF candidates = <<>> THEN None
    ELSE LET found == SearchRoots(<<searchPath>>,
                                  FileName(Concat(Head(candidates)), ".props.js.map"))
         IN IF IsSome(found) THEN found ELSE CandidatesInRoot(searchPath, Tail(candidates))
SearchRootsFirst(candidates) ==
    LET first == CandidatesInRoot(SearchPaths[1], candidates)
    IN IF IsSome(first) THEN first ELSE CandidatesInRoot(SearchPaths[2], candidates)

RECURSIVE SearchCandidates(_)
SearchCandidates(candidates) ==
    IF candidates = <<>> THEN None
    ELSE LET found == SearchRoots(SearchPaths, FileName(Concat(Head(candidates)), ".props.js.map"))
         IN IF IsSome(found) THEN found ELSE SearchCandidates(Tail(candidates))

findParentPropsFile(className) == SearchCandidates(Candidates(className))

\* the old-format root artifact and the new-format locations, in the order tried
BaseComponentPath == <<DirName("core"), FileName("base", ".component.js.map")>>
PossiblePaths ==
    << <<DirName("core"), FileName("base", ".ts")>>,
       <<DirName("core"), FileName("base", ".tsx")>>,
       <<DirName("common"), FileName("base", ".ts")>>,
       <<DirName("common"), FileName("base", ".tsx")>> >>

IsBasePropsInfo(propsInfo) == IsSome(propsInfo) /\ Val(propsInfo).className = BaseProps

\* the loop over possiblePaths: the first location holding a BaseProps
\* declaration populates the cache; a read that throws ends the search.
\* reads = the locations handed to readFileSync, in order
RECURSIVE TryPossiblePaths(_)
TryPossiblePaths(paths) ==
    IF paths = <<>> THEN [props |-> <<>>, cache |-> None, reads |-> <<>>]
    ELSE IF ~existsSync(Head(paths)) THEN TryPossiblePaths(Tail(paths))
    ELSE IF ~CanReadFile(Head(paths))
    THEN [props |-> <<>>, cache |-> None, reads |-> <<Head(paths)>>]
    ELSE LET propsInfo == extractProps(readFileSync(Head(paths)))
         IN IF IsBasePropsInfo(propsInfo)
            THEN [props |-> Val(propsInfo).props, cache |-> Some(Val(propsInfo).props),
                  reads |-> <<Head(paths)>>]
            ELSE [TryPossiblePaths(Tail(paths)) EXCEPT !.reads = <<Head(paths)>> \o @]

\* faulty variant: a populated cache is not served; the lookup answers with an
\* empty list
getBasePropsCacheLost(cache) ==
    IF IsSome(cache) THEN [props |-> <<>>, cache |-> cache, log |-> <<>>, reads |-> <<>>]
    ELSE LET old == IF existsSync(BaseComponentPath)
                    THEN extractSourceContent(BaseComponentPath)
                    ELSE [val |-> None, log |-> <<>>]
             oldReads == IF existsSync(BaseComponentPath) THEN <<BaseComponentPath>> ELSE <<>>
             propsInfo == IF Truthy(old.val) THEN extractProps(Val(old.val)) ELSE None
         IN IF IsBasePropsInfo(propsInfo)
            THEN [props |-> Val(propsInfo).props, cache |-> Some(Val(propsInfo).props),
                  log |-> old.log, reads |-> oldReads]
            ELSE LET new == TryPossiblePaths(PossiblePaths)
                 IN [props |-> new.props, cache |-> new.cache, log |-> old.log,
                     reads |-> oldReads \o new.reads]

\* faulty variant: the list handed out is the cached array itself, so that the
\* tags the caller sets are written into the cache
getBasePropsShared(cache) ==
    IF IsSome(cache)
    THEN [props |-> Val(cache), log |-> <<>>, reads |-> <<>>,
          cache |-> Some([i \in 1..Len(Val(cache)) |->
                             [Val(cache)[i] EXCEPT !.inherited = TRUE,
                                                   !.inheritedFrom = Some(BaseProps)]])]
    ELSE LET old == IF existsSync(BaseComponentPath)
                    THEN extractSourceContent(BaseComponentPath)
                    ELSE [val |-> None, log |-> <<>>]
             oldReads == IF existsSync(BaseComponentPath) THEN <<BaseComponentPath>> ELSE <<>>
             propsInfo == IF Truthy(old.val) THEN extractProps(Val(old.val)) ELSE None
         IN IF IsBasePropsInfo(propsInfo)
            THEN [props |-> Val(propsInfo).props, cache |-> Some(Val(propsInfo).props),
                  log |-> old.log, reads |-> oldReads]
            ELSE LET new == TryPossiblePaths(PossiblePaths)
                 IN [props |-> new.props, cache |-> new.cache, log |-> old.log,
                     reads |-> oldReads \o new.reads]

\* getBaseProps with this.basePropsCache = cache: the list returned, the cache
\* afterwards, what was logged and the root locations that were read
getBaseProps(cache) ==
    IF IsSome(cache) THEN [props |-> Val(cache), cache |-> cache, log |-> <<>>, reads |-> <<>>]
    ELSE LET old == IF existsSync(BaseComponentPath)
                    THEN extractSourceContent(BaseComponentPath)
                    ELSE [val |-> None, log |-> <<>>]
             oldReads == IF existsSync(BaseComponentPath) THEN <<BaseComponentPath>> ELSE <<>>
             propsInfo == IF Truthy(old.val) THEN extractProps(Val(old.val)) ELSE None
         IN IF IsBasePropsInfo(propsInfo)
            THEN [props |-> Val(propsInfo).props, cache |-> Some(Val(propsInfo).props),
                  log |-> old.log, reads |-> oldReads]
            ELSE LET new == TryPossiblePaths(PossiblePaths)
                 IN [props |-> new.props, cache |-> new.cache, log |-> old.log,
                     reads |-> oldReads \o new.reads]

\* faulty variant: every descriptor is tagged as coming from the hierarchy root
TagAsRoot(prop, baseClassName) ==
    [prop EXCEPT !.inherited = TRUE, !.inheritedFrom = Some(BaseProps)]

\* faulty variant: the origin is recorded but the inherited flag is not set
TagOriginOnly(prop, baseClassName) ==
    [prop EXCEPT !.inheritedFrom = Some(baseClassName)]

\* { ...prop, inherited: true, inheritedFrom: baseClassName }
TagInherited(prop, baseClassName) ==
    [prop EXCEPT !.inherited = TRUE, !.inheritedFrom = Some(baseClassName)]

TagAll(props, baseClassName) ==
    [i \in 1..Len(props) |-> TagInherited(props[i], baseClassName)]

\* one getInheritedProps invocation as recorded in resolutions: depth is its
\* frame on the ancestor chain; returned is false for a frame that never
\* returns; reads = the root locations getBaseProps read during it
Resolution(name, depth, didReturn, props) ==
    [name |-> name, depth |-> depth, returned |-> didReturn,
     props |-> IF didReturn THEN props ELSE <<>>, reads |-> <<>>]

\* getInheritedProps(baseClassName) entered as frame number depth of its chain,
\* with this.basePropsCache = cache.  The code recurses on propsInfo.baseClass
\* with nothing that ends a chain that revisits an artifact: such a call never
\* returns (diverged).
RECURSIVE getInheritedProps(_, _, _)
getInheritedProps(baseClassName, cache, depth) ==
    IF depth > MaxChain
    THEN [props |-> <<>>, cache |-> cache, log |-> <<>>, diverged |-> TRUE,
          calls |-> <<>>]
    ELSE IF baseClassName = BaseProps
    THEN LET base == getBaseProps(cache)
             props == TagAll(base.props, BaseProps)
         IN [props |-> props, cache |-> base.cache, log |-> base.log, diverged |-> FALSE,
             calls |-> <<[Resolution(baseClassName, depth, TRUE, props)
                            EXCEPT !.reads = base.reads]>>]
    ELSE LET parentPropsPath == findParentPropsFile(baseClassName)
         IN IF ~IsSome(parentPropsPath)
            THEN [props |-> <<>>, cache |-> cache, diverged |-> FALSE,
                  log |-> <<Warn("Could not find props file for parent class", baseClassName)>>,
                  calls |-> <<Resolution(baseClassName, depth, TRUE, <<>>)>>]
            ELSE LET source == extractSourceContent(Val(parentPropsPath))
                     propsInfo == IF Truthy(source.val) THEN extractProps(Val(source.val)) ELSE None
                     own == IF IsSome(propsInfo) THEN TagAll(Val(propsInfo).props, baseClassName)
                            ELSE <<>>
                 IN IF IsSome(propsInfo) /\ IsSome(Val(propsInfo).baseClass)
                    THEN LET up == getInheritedProps(Val(Val(propsInfo).baseClass), cache, depth + 1)
                             props == own \o up.props
                         IN [props |-> props, cache |-> up.cache, log |-> source.log \o up.log,
                             diverged |-> up.diverged,
                             calls |-> <<Resolution(baseClassName, depth, ~up.diverged, props)>>
                                       \o up.calls]
                    ELSE [props |-> own, cache |-> cache, log |-> source.log, diverged |-> FALSE,
                          calls |-> <<Resolution(baseClassName, depth, TRUE, own)>>]

-----------------------------------------------------------------------------
(* DocumentationGenerator.filterComponentDoc                               *)

\* overrides?.<list>?.includes(name)
OverrideExcludes(list, name) == IsSome(list) /\ name \in Val(list)

Overrides(componentName) ==
    IF componentName \in DOMAIN config.documentation.componentOverrides
    THEN Some(config.documentation.componentOverrides[componentName])
    ELSE None

\* faulty variant: only the global exclude-list is consulted
KeepPropGlobalOnly(doc, prop) ==
    prop.name \notin config.documentation.excludeProps

KeepProp(doc, prop) ==
    LET overrides == Overrides(doc.componentName)
    IN /\ prop.name \notin config.documentation.excludeProps
       /\ ~(prop.inherited /\ prop.name \in config.documentation.excludeInheritedProps)
       /\ ~(IsSome(overrides) /\ OverrideExcludes(Val(overrides).excludeProps, prop.name))

KeepMethod(doc, method) ==
    LET overrides == Overrides(doc.componentName)
    IN /\ method.name \notin config.documentation.excludeMethods
       /\ ~(IsSome(overrides) /\ OverrideExcludes(Val(overrides).excludeMethods, method.name))

KeepStyle(doc, style) ==
    LET overrides == Overrides(doc.componentName)
    IN /\ style.className \notin config.documentation.excludeStyleClasses
       /\ ~(IsSome(overrides)
            /\ OverrideExcludes(Val(overrides).excludeStyleClasses, style.className))

\* faulty variant: the events named like a dropped property are dropped too
filterComponentDocEvents(doc) ==
    [doc EXCEPT !.props = SelectSeq(@, LAMBDA prop : KeepProp(doc, prop)),
                !.methods = SelectSeq(@, LAMBDA method : KeepMethod(doc, method)),
                !.styles = SelectSeq(@, LAMBDA style : KeepStyle(doc, style)),
                !.events = SelectSeq(@, LAMBDA e :
                               \E i \in 1..Len(doc.props) :
                                   doc.props[i].name = e.name /\ KeepProp(doc, doc.props[i]))]

filterComponentDoc(doc) ==
    [doc EXCEPT !.props = SelectSeq(@, LAMBDA prop : KeepProp(doc, prop)),
                !.methods = SelectSeq(@, LAMBDA method : KeepMethod(doc, method)),
                !.styles = SelectSeq(@, LAMBDA style : KeepStyle(doc, style))]

-----------------------------------------------------------------------------
(* DocumentationGenerator: event reconciliation                            *)

\* an import clause  from '<package>/<rel>'
Import(package, rel) == [package |-> package, rel |-> rel]

InternalPackage == "@wavemaker/app-rn-runtime"

\* the import pattern: the package, then core/ or components/, then a rest
IsInternalImport(imp) ==
    /\ imp.package = InternalPackage
    /\ Len(imp.rel) >= 2
    /\ imp.rel[1] \in {DirName("core"), DirName("components")}

\* path.join(this.componentsPath, relativePath + '.js')
ImportedFile(imp) ==
    Front(imp.rel) \o <<[Last(imp.rel) EXCEPT !.ext = @ \o ".js"]>>

findReferencedComponents(jsContent) ==
    LET matches == SelectSeq(jsContent.imports, IsInternalImport)
    IN [i \in 1..Len(matches) |-> ImportedFile(matches[i])]

CallbackEvent(e) == [name |-> e.name, type |-> <<"Function">>, parameters |-> e.parameters]

HasEvent(events, name) == \E i \in 1..Len(events) : events[i].name = name

\* faulty variant: the events of a referenced component are added without
\* looking at the names already collected
AddAlways(callbackEvents, refEvents) ==
    callbackEvents \o [i \in 1..Len(refEvents) |-> CallbackEvent(refEvents[i])]

\* refEvents.forEach: only add if not already present in callbackEvents
RECURSIVE AddIfAbsent(_, _)
AddIfAbsent(callbackEvents, refEvents) ==
    IF refEvents = <<>> THEN callbackEvents
    ELSE AddIfAbsent(IF HasEvent(callbackEvents, Head(refEvents).name) THEN callbackEvents
                     ELSE Append(callbackEvents, CallbackEvent(Head(refEvents))),
                     Tail(refEvents))

\* the loop over referencedComponents; reading an existing path that is not a
\* readable file throws
RECURSIVE ScanReferenced(_, _)
ScanReferenced(referencedComponents, callbackEvents) ==
    IF referencedComponents = <<>> THEN [threw |-> FALSE, events |-> callbackEvents]
    ELSE LET refComponentPath == Head(referencedComponents)
         IN IF ~existsSync(refComponentPath)
            THEN ScanReferenced(Tail(referencedComponents), callbackEvents)
            ELSE IF ~CanReadFile(refComponentPath)
            THEN [threw |-> TRUE, events |-> callbackEvents]
            ELSE ScanReferenced(Tail(referencedComponents),
                    AddIfAbsent(callbackEvents,
                                extractEventCallbacks(readFileSync(refComponentPath))))

\* callbackEvents of generateComponentDoc: the component's compiled behavior
\* file <componentName>.component.js and the components it imports
CallbackEvents(componentPath, componentName) ==
    LET jsFile == Append(componentPath, FileName(componentName, ".component.js"))
    IN IF ~existsSync(jsFile) THEN [threw |-> FALSE, events |-> <<>>]
       ELSE IF ~CanReadFile(jsFile) THEN [threw |-> TRUE, events |-> <<>>]
       ELSE LET jsContent == readFileSync(jsFile)
                events == extractEventCallbacks(jsContent)
                own == [i \in 1..Len(events) |-> CallbackEvent(events[i])]
            IN ScanReferenced(findReferencedComponents(jsContent), own)

PropsEvents(allProps) ==
    LET es == extractEvents(allProps)
    IN [i \in 1..Len(es) |->
           [name |-> es[i].name, type |-> es[i].type,
            parameters |-> extractEventParameters(es[i].type)]]

\* eventMap.set(e.name, e): a new key is appended, an existing key keeps its
\* place and takes the new value
MapSet(eventMap, e) ==
    IF HasEvent(eventMap, e.name)
    THEN [i \in 1..Len(eventMap) |-> IF eventMap[i].name = e.name THEN e ELSE eventMap[i]]
    ELSE Append(eventMap, e)

RECURSIVE MapSetAll(_, _)
MapSetAll(eventMap, events) ==
    IF events = <<>> THEN eventMap
    ELSE MapSetAll(MapSet(eventMap, Head(events)), Tail(events))

\* faulty variant: the two lists are appended instead of keyed by name
MergeEventsAppend(propsEvents, callbackEvents) ==
    propsEvents \o callbackEvents

\* Array.from(eventMap.values()) after the two forEach
MergeEvents(propsEvents, callbackEvents) ==
    MapSetAll(MapSetAll(<<>>, propsEvents), callbackEvents)

-----------------------------------------------------------------------------
(* DocumentationGenerator.generateComponentDoc                             *)

\* the styles list built from extractStyleClasses
StyleList(styles) ==
    LET styleInfo == IF Truthy(styles) THEN extractStyleClasses(Val(styles)) ELSE None
    IN IF ~IsSome(styleInfo) THEN <<>>
       ELSE LET others == SelectSeq(Val(styleInfo).styleClasses,
                                    LAMBDA cls : cls /= Val(styleInfo).defaultClass)
            IN <<[className |-> Val(styleInfo).defaultClass,
                  description |-> Some("Default style class")]>>
               \o [i \in 1..Len(others) |-> [className |-> others[i], description |-> None]]

\* path.resolve(componentPath, relativePath); a relative path is its segments
RECURSIVE Resolve(_, _)
Resolve(base, relativePath) ==
    IF relativePath = <<>> THEN base
    ELSE Resolve(IF Head(relativePath) = "." THEN base
                 ELSE IF Head(relativePath) = ".."
                      THEN (IF base = <<>> THEN base ELSE Front(base))
                      ELSE Append(base, DirName(Head(relativePath))),
                 Tail(relativePath))

\* what a call leaves behind: the value returned (None = null), the cache, the
\* console output, the getInheritedProps invocations, and the recursion it
\* never returns from ("" when it returns)
Outcome(doc, cache, logged, calls, diverged) ==
    [doc |-> doc, cache |-> cache, log |-> logged, calls |-> calls, diverged |-> diverged]

NoResolution ==
    [props |-> <<>>, cache |-> None, log |-> <<>>, diverged |-> FALSE, calls |-> <<>>]

RECURSIVE generateComponentDoc(_, _, _, _)
RECURSIVE ChildDocs(_, _, _, _, _)

\* faulty variant: the loop ends at the first entry whose path is missing or
\* whose child yields no doc
RECURSIVE ChildDocsUntilFailure(_, _, _, _, _)
ChildDocsUntilFailure(componentPath, category, childConfig, cache, nesting) ==
    IF childConfig = <<>> THEN Outcome(<<>>, cache, <<>>, <<>>, "")
    ELSE LET childPath == Resolve(componentPath, Head(childConfig).relativePath)
         IN IF ~existsSync(childPath)
            THEN Outcome(<<>>, cache,
                         <<Warn("Child component path not found", childPath)>>, <<>>, "")
            ELSE LET child == generateComponentDoc(childPath, category, cache, nesting + 1)
                 IN IF child.diverged /= "" \/ ~IsSome(child.doc)
                    THEN Outcome(<<>>, child.cache, child.log, child.calls, child.diverged)
                    ELSE LET rest == ChildDocsUntilFailure(componentPath, category,
                                                           Tail(childConfig), child.cache,
                                                           nesting)
                         IN Outcome(<<Val(child.doc)>> \o rest.doc,
                                    rest.cache, child.log \o rest.log,
                                    child.calls \o rest.calls, rest.diverged)

\* the loop over Object.entries(childConfig): doc is the childData collected
ChildDocs(componentPath, category, childConfig, cache, nesting) ==
    IF childConfig = <<>> THEN Outcome(<<>>, cache, <<>>, <<>>, "")
    ELSE LET childPath == Resolve(componentPath, Head(childConfig).relativePath)
         IN IF ~existsSync(childPath)
            THEN LET rest == ChildDocs(componentPath, category, Tail(childConfig), cache, nesting)
                 IN [rest EXCEPT !.log = <<Warn("Child component path not found", childPath)>> \o @]
            ELSE LET child == generateComponentDoc(childPath, category, cache, nesting + 1)
                 IN IF child.diverged /= ""
                    THEN Outcome(<<>>, child.cache, child.log, child.calls, child.diverged)
                    ELSE LET rest == ChildDocs(componentPath, category, Tail(childConfig),
                                               child.cache, nesting)
                         IN Outcome((IF IsSome(child.doc) THEN <<Val(child.doc)>> ELSE <<>>)
                                        \o rest.doc,
                                    rest.cache, child.log \o rest.log,
                                    child.calls \o rest.calls, rest.diverged)

\* faulty variant: the property list is keyed by name, so that of the
\* descriptors sharing a name only the first is kept
RECURSIVE FirstPerName(_, _)
FirstPerName(props, seen) ==
    IF props = <<>> THEN <<>>
    ELSE IF Head(props).name \in seen THEN FirstPerName(Tail(props), seen)
    ELSE <<Head(props)>> \o FirstPerName(Tail(props), seen \cup {Head(props).name})
DocOfCollapsed(componentPath, category, sources, propsInfo, inherited, methods, events, styles, children) ==
    LET doc == [componentName |-> basename(componentPath),
                componentPath |-> componentPath,
                category |-> category,
                props |-> FirstPerName((IF IsSome(propsInfo) THEN Val(propsInfo).props
                                        ELSE <<>>) \o inherited.props, {}),
                methods |-> methods,
                events |-> events,
                styles |-> styles,
                baseClass |-> IF IsSome(propsInfo) THEN Val(propsInfo).baseClass ELSE None,
                children |-> IF Len(children.doc) > 0 THEN Some(children.doc) ELSE None]
    IN IF children.diverged /= ""
       THEN Outcome(None, children.cache, sources.log \o inherited.log \o children.log,
                    inherited.calls \o children.calls, children.diverged)
       ELSE Outcome(Some(filterComponentDoc(doc)), children.cache,
                    sources.log \o inherited.log \o children.log,
                    inherited.calls \o children.calls, "")

\* the ComponentDoc literal and the return: what the call leaves behind once
\* the events are merged and the children collected
DocOf(componentPath, category, sources, propsInfo, inherited, methods, events, styles, children) ==
    LET doc == [componentName |-> basename(componentPath),
                componentPath |-> componentPath,
                category |-> category,
                props |-> (IF IsSome(propsInfo) THEN Val(propsInfo).props ELSE <<>>)
                          \o inherited.props,
                methods |-> methods,
                events |-> events,
                styles |-> styles,
                baseClass |-> IF IsSome(propsInfo) THEN Val(propsInfo).baseClass ELSE None,
                children |-> IF Len(children.doc) > 0 THEN Some(children.doc) ELSE None]
    IN IF children.diverged /= ""
       THEN Outcome(None, children.cache, sources.log \o inherited.log \o children.log,
                    inherited.calls \o children.calls, children.diverged)
       ELSE Outcome(Some(filterComponentDoc(doc)), children.cache,
                    sources.log \o inherited.log \o children.log,
                    inherited.calls \o children.calls, "")

\* the body from "Parse methods" on, with the sources, the properties
\* declaration and the resolution of its ancestor at hand
DocFromProps(componentPath, category, nesting, sources, propsInfo, inherited) ==
    IF inherited.diverged
    THEN Outcome(None, inherited.cache, sources.log \o inherited.log, inherited.calls,
                 "ancestors")
    ELSE LET componentName == basename(componentPath)
             methodsInfo == IF Truthy(sources.component)
                            THEN extractMethods(Val(sources.component)) ELSE None
             callbackEvents == CallbackEvents(componentPath, componentName)
             childConfig == IF componentName \in DOMAIN config.childComponents
                            THEN config.childComponents[componentName] ELSE <<>>
         IN IF callbackEvents.threw
            THEN Outcome(None, inherited.cache,
                         sources.log \o inherited.log
                             \o <<Err("Error generating docs", componentPath)>>,
                         inherited.calls, "")
            ELSE DocOf(componentPath, category, sources, propsInfo, inherited,
                       IF IsSome(methodsInfo) THEN Val(methodsInfo).methods ELSE <<>>,
                       MergeEvents(PropsEvents((IF IsSome(propsInfo) THEN Val(propsInfo).props
                                                ELSE <<>>) \o inherited.props),
                                   callbackEvents.events),
                       StyleList(sources.styles),
                       ChildDocs(componentPath, category, childConfig, inherited.cache,
                                 nesting))

\* the body from "Parse props" on: getInheritedProps is called when the
\* properties declaration names a base class
DocFromSources(componentPath, category, cache, nesting, sources, propsInfo) ==
    DocFromProps(componentPath, category, nesting, sources, propsInfo,
                 IF IsSome(propsInfo) /\ IsSome(Val(propsInfo).baseClass)
                 THEN getInheritedProps(Val(Val(propsInfo).baseClass), cache, 1)
                 ELSE [NoResolution EXCEPT !.cache = cache])

\* faulty variant: the doc is built although no source was found
DocFromDirectoryUnchecked(componentPath, category, cache, nesting, sources) ==
    DocFromSources(componentPath, category, cache, nesting, sources,
                   IF Truthy(sources.props) THEN extractProps(Val(sources.props))
                   ELSE None)

\* the body after extractComponentSources returned sources
DocFromDirectory(componentPath, category, cache, nesting, sources) ==
    IF ~Truthy(sources.props) /\ ~Truthy(sources.component)
    THEN Outcome(None, cache,
                 sources.log \o <<Warn("No source files found", componentPath)>>, <<>>, "")
    ELSE DocFromSources(componentPath, category, cache, nesting, sources,
                        IF Truthy(sources.props) THEN extractProps(Val(sources.props))
                        ELSE None)

\* generateComponentDoc(componentPath, category) entered as frame number
\* nesting of the recursion into child components, with
\* this.basePropsCache = cache; a componentPath that cannot be listed throws
\* into the catch
generateComponentDoc(componentPath, category, cache, nesting) ==
    IF nesting > MaxNesting THEN Outcome(None, cache, <<>>, <<>>, "children")
    ELSE IF ~CanReaddir(componentPath)
    THEN Outcome(None, cache, <<Err("Error generating docs", componentPath)>>, <<>>, "")
    ELSE DocFromDirectory(componentPath, category, cache, nesting,
                          extractComponentSources(componentPath))

-----------------------------------------------------------------------------
(* The component library the runs are made on.  Every choice below is a    *)
(* content the source roots can have; Init draws one combination.          *)

\* property and event names
n_caption == <<"c", "a", "p", "t", "i", "o", "n">>
n_disabled == <<"d", "i", "s", "a", "b", "l", "e", "d">>
n_title == <<"t", "i", "t", "l", "e">>
n_id == <<"i", "d">>
n_name == <<"n", "a", "m", "e">>
n_key == <<"k", "e", "y">>
n_children == <<"c", "h", "i", "l", "d", "r", "e", "n">>
n_listener == <<"l", "i", "s", "t", "e", "n", "e", "r">>
n_deferload == <<"d", "e", "f", "e", "r", "l", "o", "a", "d">>
n_isdefault == <<"i", "s", "d", "e", "f", "a", "u", "l", "t">>
n_showskeletonchildren ==
    <<"s", "h", "o", "w", "s", "k", "e", "l", "e", "t", "o", "n">> \o n_children
n_onTap == <<"o", "n", "T", "a", "p">>
n_onLong == <<"o", "n", "L", "o", "n", "g">>
n_once == <<"o", "n", "c", "e">>

\* class names
c_AccordionProps == <<"A", "c", "c", "o", "r", "d", "i", "o", "n">> \o Props
c_WmAccordion == Wm \o <<"A", "c", "c", "o", "r", "d", "i", "o", "n">>
c_PaneProps == <<"P", "a", "n", "e">> \o Props
c_WmPane == Wm \o <<"P", "a", "n", "e">>
c_BaseInputProps == <<"B", "a", "s", "e", "I", "n", "p", "u", "t">> \o Props
c_NavProps == <<"N", "a", "v">> \o Props
c_WmNavProps == Wm \o c_NavProps
c_LoopProps == <<"L", "o", "o", "p">> \o Props
c_GoneProps == <<"G", "o", "n", "e">> \o Props
c_SkeletonProps == <<"S", "k", "e", "l", "e", "t", "o", "n">> \o Props
c_WmAccordionState == c_WmAccordion \o State
c_WmAccordionStyles == c_WmAccordion \o Styles
n_focus == <<"f", "o", "c", "u", "s">>
n_mode == <<"m", "o", "d", "e">>
n_size == <<"s", "i", "z", "e">>

AncestorNames ==
    {BaseProps, c_BaseInputProps, c_NavProps, c_WmNavProps, c_LoopProps, c_GoneProps}

\* type texts
t_string == <<"string">>
t_boolean == <<"boolean">>
t_Function == <<"Function">>
t_handler == <<"(", "e", ":", "Event", ")", "=>", "void">>
t_void == <<"void">>

PropsText(decl) == Text(<<decl>>, <<>>, <<>>, <<>>)

\* the Props declaration of the accordion component: an interface
\*   AccordionProps [extends <base>] { caption: string; disabled?: boolean;
\*                                     [onTap?: (e: Event) => void; id: string;
\*                                      focus(): void] }
AccordionDecl(base, withEvents) ==
    Decl("interface", c_AccordionProps, base,
         <<Member(n_caption, Some(t_string), FALSE, None),
           Member(n_disabled, Some(t_boolean), TRUE, None)>>
         \o (IF withEvents
             THEN <<Member(n_onTap, Some(t_handler), TRUE, None),
                    Member(n_id, Some(t_string), FALSE, None),
                    MethodMember(n_focus)>>
             ELSE <<>>),
         <<>>)

\* class WmAccordion { expand() {...}  toggle(index: number): boolean {...}
\*   private collapse() {...}  render() {...}  renderWidget(props) {...}
\*   close(): void {...}  protected measure(): number {...}
\*   componentDidMount() {...} }
AccordionClass ==
    Decl("class", c_WmAccordion, <<>>, <<>>,
         <<Method("expand", <<>>, None, <<>>),
           Method("toggle", <<"public">>, Some(t_boolean),
                  <<Param("index", FALSE, Some(<<"number">>))>>),
           Method("collapse", <<"private">>, None, <<>>),
           Method("render", <<>>, None, <<>>),
           Method("renderWidget", <<>>, None, <<Param("props", FALSE, None)>>),
           Method("close", <<>>, Some(t_void), <<>>),
           Method("measure", <<"protected">>, Some(<<"number">>), <<>>),
           Method("componentDidMount", <<>>, None, <<>>)>>)

\* the declarations of the behavior text: the component class, then
\*   class WmAccordionState { reset() {...} }
\*   class WmAccordionStyles { apply() {...} }
BehaviorDecls ==
    <<AccordionClass,
      Decl("class", c_WmAccordionState, <<>>, <<>>, <<Method("reset", <<>>, None, <<>>)>>),
      Decl("class", c_WmAccordionStyles, <<>>, <<>>, <<Method("apply", <<>>, None, <<>>)>>)>>

\* the behavior text of the accordion component:
\*   "none"   no call site, no import
\*   "emit"   this.invokeEventCallback('onTap', [e, target]) and imports of
\*            react and of the internal core/tappable.component
\*   "import" the two imports only
TappableImport ==
    Import(InternalPackage, <<DirName("core"), FileName("tappable", ".component")>>)
BehaviorCalls(behavior) ==
    IF behavior = "emit" THEN <<Invoke(n_onTap, <<"e", "target">>)>> ELSE <<>>
BehaviorImports(behavior) ==
    IF behavior = "none" THEN <<>> ELSE <<Import("react", <<>>), TappableImport>>

\* const DEFAULT_CLASS = 'app-accordion';
\* addStyle(DEFAULT_CLASS, ...); addStyle(DEFAULT_CLASS + '-rtl', ...);
\* this.addStyle('link-primary', ...); addStyle('app-accordion', ...);
AccordionStyles ==
    Text(<<>>, <<>>, <<>>,
         <<VarDecl("DEFAULT_CLASS", TRUE, "app-accordion"),
           CallExpr("identifier", "addStyle", Some(OtherExpr)),
           CallExpr("identifier", "addStyle",
                    Some(Binary(<<Ident("DEFAULT_CLASS"), Lit("-rtl")>>))),
           CallExpr("property", "addStyle", Some(StringLit("link-primary"))),
           CallExpr("identifier", "addStyle", Some(StringLit("app-accordion")))>>)

\* the style source of the accordion component:
\*   "first"    as above, the constant before the registration calls
\*   "late"     addStyle(DEFAULT_CLASS + '-rtl', ...); this.addStyle('link-primary', ...);
\*              const DEFAULT_CLASS = 'app-accordion';
\*   "noconst"  the two calls of "late", DEFAULT_CLASS being imported
\*   "none"     the component has no style source
StyleLayouts == {"first", "late", "noconst", "none"}
AccordionStylesOf(styles) ==
    IF styles = "first" THEN AccordionStyles
    ELSE Text(<<>>, <<>>, <<>>,
              <<CallExpr("identifier", "addStyle",
                         Some(Binary(<<Ident("DEFAULT_CLASS"), Lit("-rtl")>>))),
                CallExpr("property", "addStyle", Some(StringLit("link-primary")))>>
              \o (IF styles = "late"
                  THEN <<VarDecl("DEFAULT_CLASS", TRUE, "app-accordion")>> ELSE <<>>))

\* core/tappable.component.js, when it is there:
\*   "both"  invokeEventCallback('onTap', [this.props.target, ev, pos]);
\*           invokeEventCallback('onLong', [ev, target]);
\*           invokeEventCallback('onTap', [ev]);
\*           invokeEventCallback('onLong', [target]);
\*   "long"  the second and the fourth call site only
TappableJs(tappable) ==
    Text(<<>>,
         (IF tappable = "both"
          THEN <<Invoke(n_onTap, <<"this.props.target", "ev", "pos">>)>> ELSE <<>>)
         \o <<Invoke(n_onLong, <<"ev", "target">>)>>
         \o (IF tappable = "both" THEN <<Invoke(n_onTap, <<"ev">>)>> ELSE <<>>)
         \o <<Invoke(n_onLong, <<"target">>)>>,
         <<>>, <<>>)

\* the child component accordionpane (compiled form):
\*   class PaneProps extends BaseInputProps { title: string = 'Pane' as any;
\*       onLong: Function; mode: string = 'single' as string; size = 1 }
\*   accordionpane.component.js: invokeEventCallback('onLong', [])
PaneProps ==
    PropsText(Decl("class", c_PaneProps, <<c_BaseInputProps>>,
                   <<Member(n_title, Some(t_string), FALSE, Some(<<"'Pane'", "as", "any">>)),
                     Member(n_onLong, Some(t_Function), FALSE, None),
                     Member(n_mode, Some(t_string), FALSE, Some(<<"'single'", "as", "string">>)),
                     Member(n_size, None, FALSE, Some(<<"1">>))>>,
                   <<>>))
\*   accordionpane.component.js.map: class WmPane { } with the same call site
PaneJs == Text(<<>>, <<Invoke(n_onLong, <<"">>)>>, <<>>, <<>>)
PaneSource ==
    Text(<<Decl("class", c_WmPane, <<>>, <<>>, <<>>)>>, <<Invoke(n_onLong, <<"">>)>>,
         <<>>, <<>>)

\* the root type:  class BaseProps { id: string = null as any; name?: string;
\*                                   onTap?: Function; once: Function }
BaseText ==
    PropsText(Decl("class", BaseProps, <<>>,
                   <<Member(n_id, Some(t_string), FALSE, Some(<<"null", "as", "any">>)),
                     Member(n_name, Some(t_string), TRUE, None),
                     Member(n_onTap, Some(t_Function), TRUE, None),
                     Member(n_once, Some(t_Function), FALSE, None)>>,
                   <<>>))

\* the root artifact in two other contents:
\*   class BaseProps { id: string }
\*   class BaseProps { id: string }  class SkeletonProps { }
PlainBaseText ==
    PropsText(Decl("class", BaseProps, <<>>,
                   <<Member(n_id, Some(t_string), FALSE, None)>>, <<>>))
OtherBaseText ==
    Text(<<Decl("class", BaseProps, <<>>,
                <<Member(n_id, Some(t_string), FALSE, None)>>, <<>>),
           Decl("class", c_SkeletonProps, <<>>, <<>>, <<>>)>>,
         <<>>, <<>>, <<>>)

\* the ancestor artifacts:
\*   class BaseInputProps extends <up> { name: string; onLong?: (e: Event) => void; [x: string]: any }
\*   class NavProps extends <up> { key: string }            (nav.props.js.map)
\*   class LoopProps extends LoopProps { id: string }       (loop.props.js.map)
BaseInputText(up) ==
    PropsText(Decl("class", c_BaseInputProps, <<up>>,
                   <<Member(n_name, Some(t_string), FALSE, None),
                     Member(n_onLong, Some(t_handler), TRUE, None),
                     OtherMember(<<"x">>)>>,
                   <<>>))
NavText(up) ==
    PropsText(Decl("class", c_NavProps, <<up>>,
                   <<Member(n_key, Some(t_string), FALSE, None)>>, <<>>))
LoopText ==
    PropsText(Decl("class", c_LoopProps, <<c_LoopProps>>,
                   <<Member(n_id, Some(t_string), FALSE, None)>>, <<>>))

\* what BaseInputProps and NavProps extend in each ancestor layout:
\*   "root"   BaseInputProps -> BaseProps
\*   "deep"   BaseInputProps -> NavProps -> BaseProps
\*   "gone"   BaseInputProps -> GoneProps, which has no artifact
\*   "alias"  BaseInputProps -> NavProps -> WmNavProps, whose candidate stem
\*            nav is the artifact of NavProps again
\*   "self"   BaseInputProps -> LoopProps -> LoopProps
\*   "shadow" as "alias", with further artifacts a candidate stem matches:
\*            components/input/nav.props.js.map, core/wm-nav.props.js.map and
\*            core/base-input.props.js.map
AncestorLayouts == {"root", "deep", "gone", "alias", "self", "shadow"}
BaseInputUp(anc) ==
    CASE anc = "root" -> BaseProps
      [] anc = "gone" -> c_GoneProps
      [] anc = "self" -> c_LoopProps
      [] OTHER -> c_NavProps
NavUp(anc) == IF anc \in {"alias", "shadow"} THEN c_WmNavProps ELSE BaseProps

\* path helpers
P_components == <<DirName("components")>>
P_core == <<DirName("core")>>
P_basic == <<DirName("components"), DirName("basic")>>
P_input == <<DirName("components"), DirName("input")>>
P_accordion == Append(P_basic, DirName("accordion"))
P_pane == Append(P_accordion, DirName("accordionpane"))
P_baseinput == Append(P_input, DirName("baseinput"))
P_missing == Append(P_basic, DirName("missing"))
P_locked == Append(P_basic, DirName("locked"))

\* the accordion directory in its two on-disk representations
AccordionFiles(form, base, withEvents, behavior, styles) ==
    IF form = "direct"
    THEN (Append(P_accordion, FileName("index", ".tsx")) :>
              TextFile(Text(<<AccordionDecl(base, withEvents)>> \o BehaviorDecls,
                            BehaviorCalls(behavior), BehaviorImports(behavior), <<>>)))
         @@ (IF styles = "none" THEN <<>>
             ELSE (Append(P_accordion, FileName("styles", ".ts")) :>
                       TextFile(AccordionStylesOf(styles))))
         @@ (P_accordion :> DirNode(<<DirName("accordionpane"), FileName("index", ".tsx")>>
                                    \o (IF styles = "none" THEN <<>>
                                        ELSE <<FileName("styles", ".ts")>>)))
    ELSE (Append(P_accordion, FileName("accordion", ".props.js.map")) :>
              SourceMapOf(PropsText(AccordionDecl(base, withEvents))))
         @@ (Append(P_accordion, FileName("accordion", ".component.js.map")) :>
              SourceMapOf(Text(BehaviorDecls, BehaviorCalls(behavior),
                               BehaviorImports(behavior), <<>>)))
         @@ (IF styles = "none" THEN <<>>
             ELSE (Append(P_accordion, FileName("accordion", ".styles.js.map")) :>
                       SourceMapOf(AccordionStylesOf(styles))))
         @@ (IF behavior = "none" THEN <<>>
             ELSE (Append(P_accordion, FileName("accordion", ".component.js")) :>
                       TextFile(Text(<<>>, BehaviorCalls(behavior),
                                     BehaviorImports(behavior), <<>>))))
         @@ (P_accordion :>
                 DirNode((IF behavior = "none" THEN <<>>
                          ELSE <<FileName("accordion", ".component.js")>>)
                         \o <<FileName("accordion", ".component.js.map"),
                              FileName("accordion", ".props.js.map")>>
                         \o (IF styles = "none" THEN <<>>
                             ELSE <<FileName("accordion", ".styles.js.map")>>)
                         \o <<DirName("accordionpane")>>))

\* a compiled artifact of the accordion that cannot be decoded: broken is
\* <<>> or <<role, how>>, role the artifact (".props.js.map", ...), how:
\*   "garbage"     the file is not JSON
\*   "nocontent"   the map has no sourcesContent field
\*   "empty"       sourcesContent is []
\*   "blank"       sourcesContent[0] is the empty string
\*   "unreadable"  the file cannot be read
BrokenHows == {"garbage", "nocontent", "empty", "blank", "unreadable"}
BrokenRoles == {".props.js.map", ".component.js.map", ".styles.js.map"}
BrokenNode(how) ==
    CASE how = "garbage" -> FileNode(GarbageBody)
      [] how = "nocontent" -> FileNode(MapBody(None))
      [] how = "empty" -> FileNode(MapBody(Some(<<>>)))
      [] how = "blank" -> SourceMapOf(BlankText)
      [] OTHER -> Unreadable(SourceMapOf(EmptyText))
BrokenFiles(broken) ==
    IF broken = <<>> THEN <<>>
    ELSE (Append(P_accordion, FileName("accordion", broken[1])) :> BrokenNode(broken[2]))

PaneFiles ==
    (P_pane :> DirNode(<<FileName("accordionpane", ".component.js"),
                         FileName("accordionpane", ".component.js.map"),
                         FileName("accordionpane", ".props.js.map")>>))
    @@ (Append(P_pane, FileName("accordionpane", ".component.js")) :> TextFile(PaneJs))
    @@ (Append(P_pane, FileName("accordionpane", ".component.js.map")) :>
            SourceMapOf(PaneSource))
    @@ (Append(P_pane, FileName("accordionpane", ".props.js.map")) :> SourceMapOf(PaneProps))

\* the further artifacts of the ancestor layout "shadow":
\*   components/input/nav.props.js.map   class NavProps extends WmNavProps { mode: string }
\*   core/wm-nav.props.js.map            class WmNavProps { size: string }
\*   core/base-input.props.js.map        class BaseInputProps { title: string }
ShadowNames(anc, names) == IF anc = "shadow" THEN names ELSE <<>>
ShadowFiles(anc) ==
    IF anc /= "shadow" THEN <<>>
    ELSE (Append(P_input, FileName("nav", ".props.js.map")) :>
              SourceMapOf(PropsText(Decl("class", c_NavProps, <<c_WmNavProps>>,
                                         <<Member(n_mode, Some(t_string), FALSE, None)>>,
                                         <<>>))))
         @@ (Append(P_core, FileName("wm-nav", ".props.js.map")) :>
              SourceMapOf(PropsText(Decl("class", c_WmNavProps, <<>>,
                                         <<Member(n_size, Some(t_string), FALSE, None)>>,
                                         <<>>))))
         @@ (Append(P_core, FileName("base-input", ".props.js.map")) :>
              SourceMapOf(PropsText(Decl("class", c_BaseInputProps, <<>>,
                                         <<Member(n_title, Some(t_string), FALSE, None)>>,
                                         <<>>))))

\* core/: the root artifact
\*   "map"      core/base.component.js.map holding BaseText
\*   "ts"       core/base.ts holding BaseText
\*   "absent"   no root artifact
\*   "plain"    core/base.component.js.map holding PlainBaseText
\*   "other"    core/base.component.js.map holding OtherBaseText
\*   "garbage"  core/base.component.js.map that is not JSON
\* and the referenced component tappable as above, or not there ("none")
RootLayouts == {"map", "ts", "absent", "plain", "other", "garbage"}
RootNode(root) ==
    CASE root = "map" -> SourceMapOf(BaseText)
      [] root = "ts" -> TextFile(BaseText)
      [] root = "plain" -> SourceMapOf(PlainBaseText)
      [] root = "other" -> SourceMapOf(OtherBaseText)
      [] OTHER -> FileNode(GarbageBody)
CoreFiles(root, tappable, anc) ==
    LET rootName == IF root = "absent" THEN <<>>
                    ELSE IF root = "ts" THEN <<FileName("base", ".ts")>>
                    ELSE <<FileName("base", ".component.js.map")>>
        rootFile == IF root = "absent" THEN <<>>
                    ELSE (Append(P_core, rootName[1]) :> RootNode(root))
        tapName == IF tappable /= "none" THEN <<FileName("tappable", ".component.js")>>
                   ELSE <<>>
        tapFile == IF tappable /= "none"
                   THEN (Append(P_core, tapName[1]) :> TextFile(TappableJs(tappable)))
                   ELSE <<>>
    IN (P_core :> DirNode(rootName \o <<FileName("loop", ".props.js.map"),
                                        FileName("nav", ".props.js.map")>> \o tapName
                          \o ShadowNames(anc, <<FileName("wm-nav", ".props.js.map"),
                                                FileName("base-input", ".props.js.map")>>)))
       @@ rootFile @@ tapFile
       @@ (Append(P_core, FileName("loop", ".props.js.map")) :> SourceMapOf(LoopText))
       @@ (Append(P_core, FileName("nav", ".props.js.map")) :> SourceMapOf(NavText(NavUp(anc))))

\* components/basic/locked is a directory that cannot be listed;
\* components/input holds no source of its own
Library(form, base, withEvents, behavior, tappable, anc, root, styles, broken) ==
    BrokenFiles(broken)
    @@ (<<>> :> DirNode(<<DirName("components"), DirName("core")>>))
    @@ (P_components :> DirNode(<<DirName("basic"), DirName("input")>>))
    @@ (P_basic :> DirNode(<<DirName("accordion"), DirName("locked")>>))
    @@ (P_locked :> Unreadable(DirNode(<<>>)))
    @@ (P_input :> DirNode(<<DirName("baseinput")>>
                           \o ShadowNames(anc, <<FileName("nav", ".props.js.map")>>)))
    @@ ShadowFiles(anc)
    @@ (P_baseinput :> DirNode(<<FileName("baseinput", ".props.js.map")>>))
    @@ (Append(P_baseinput, FileName("baseinput", ".props.js.map")) :>
            SourceMapOf(BaseInputText(BaseInputUp(anc))))
    @@ AccordionFiles(form, base, withEvents, behavior, styles)
    @@ PaneFiles
    @@ CoreFiles(root, tappable, anc)

-----------------------------------------------------------------------------
(* Configurations: { ...DEFAULT_CONFIG, ...config }                        *)

NoOverride == [excludeProps |-> None, excludeMethods |-> None, excludeStyleClasses |-> None]

\* one entry of a childComponents mapping; a relative path is its segments
Child(childName, relativePath) == [childName |-> childName, relativePath |-> relativePath]

DefaultChildComponents ==
    ("accordion" :> <<Child("accordion-pane", <<".", "accordionpane">>)>>)
    @@ ("dialog" :> <<Child("dialog-content", <<"..", "dialogcontent">>),
                      Child("dialog-actions", <<"..", "dialogactions">>)>>)

DefaultDocumentation ==
    [excludeProps |-> {},
     excludeInheritedProps |-> {n_listener, n_showskeletonchildren, n_deferload, n_isdefault,
                                n_key, n_id, n_name, n_children},
     excludeMethods |-> {"renderWidget", "renderSkeleton", "prepareIcon", "prepareBadge",
                         "updateState", "componentDidMount", "componentWillUnmount",
                         "componentDidUpdate"},
     excludeStyleClasses |-> {},
     componentOverrides |-> <<>>]

DEFAULT_CONFIG ==
    [includeComponents |->
         {"accordion", "anchor", "audio", "bar-chart", "bottomsheet", "bubble-chart", "button",
          "button-group", "calendar", "camera", "card", "carousel", "checkbox", "checkboxset",
          "chips", "column-chart", "currency", "date", "datetime", "dialog", "donut-chart",
          "fileupload", "form", "icon", "picture", "label", "layoutgrid", "line-chart",
          "linearlayout", "list", "liveform", "login", "lottie", "menu", "message", "modal",
          "navbar", "number", "panel", "pie-chart", "popover", "progress-bar",
          "progress-circle", "radioset", "rating", "search", "select", "selectlocale",
          "slider", "spinner", "switch", "tabs", "text", "textarea", "tile", "time", "toggle",
          "tooltip", "video", "webview", "wizard", "barcodescanner", "alertdialog",
          "confirmdialog", "area-chart"},
     childComponents |-> DefaultChildComponents,
     excludeCategories |-> {"node_modules", ".git", "dist", "coverage", "prefabs", "page"},
     excludeComponents |-> {},
     documentation |-> DefaultDocumentation]

\* a configuration that excludes nothing
OpenConfig ==
    [includeComponents |-> {},
     childComponents |-> DefaultChildComponents,
     excludeCategories |-> {},
     excludeComponents |-> {},
     documentation |-> [excludeProps |-> {}, excludeInheritedProps |-> {},
                        excludeMethods |-> {}, excludeStyleClasses |-> {},
                        componentOverrides |-> <<>>]]

\* a configuration that uses every exclude-list, and whose accordion has
\* four children: a missing path, a directory that yields no doc and two
\* components
StrictConfig ==
    [includeComponents |-> {},
     excludeCategories |-> {"input", "page"},
     excludeComponents |-> {"accordionpane"},
     childComponents |->
         ("accordion" :> <<Child("accordion-tab", <<".", "accordiontab">>),
                           Child("accordion-lock", <<"..", "locked">>),
                           Child("accordion-input", <<"..", "..", "input", "baseinput">>),
                           Child("accordion-pane", <<".", "accordionpane">>)>>),
     documentation |->
         [excludeProps |-> {n_caption, n_name},
          excludeInheritedProps |-> {n_id, n_onTap, n_once},
          excludeMethods |-> {"expand"},
          excludeStyleClasses |-> {"link-primary"},
          componentOverrides |->
              ("accordion" :> [excludeProps |-> Some({n_disabled}),
                               excludeMethods |-> None,
                               excludeStyleClasses |-> Some({"app-accordion-rtl"})])
              @@ ("accordionpane" :> [excludeProps |-> Some({n_onLong}),
                                      excludeMethods |-> Some({"toggle"}),
                                      excludeStyleClasses |-> None])]]

Configs == {DEFAULT_CONFIG, OpenConfig, StrictConfig}

\* a configuration whose mapping leads back: the child of accordion,
\* accordionpane, is a key whose path '..' is the accordion directory again,
\* and baseinput is a key whose path '.' is its own directory
LoopConfig ==
    [childComponents |->
         ("accordion" :> <<Child("accordion-pane", <<".", "accordionpane">>)>>)
         @@ ("accordionpane" :> <<Child("accordion-back", <<"..">>)>>)
         @@ ("baseinput" :> <<Child("baseinput-self", <<".">>)>>),
     includeComponents |-> {},
     excludeCategories |-> {},
     excludeComponents |-> {},
     documentation |-> DefaultDocumentation]

-----------------------------------------------------------------------------
(* The state machine                                                       *)

ComponentPaths == {P_accordion, P_pane, P_baseinput, P_missing, P_locked, P_input}

\* the well-known locations of the root type
RootLocations == {BaseComponentPath} \cup Range(PossiblePaths)

\* the libraries of the runs, as <<form, base, withEvents, behavior, tappable,
\* anc, root, styles, broken>>: every event layout of the accordion over one
\* ancestor layout, every ancestor layout under one event layout, every style
\* layout over the other root artifacts, and every undecodable artifact
EventWorlds ==
    {<<form, base, withEvents, behavior, tappable, "root", "map", "first", <<>>>> :
        form \in {"compiled", "direct"},
        base \in {<<>>, <<c_BaseInputProps>>},
        withEvents \in BOOLEAN,
        behavior \in {"none", "emit", "import"},
        tappable \in {"none", "both", "long"}}
AncestorWorlds ==
    {<<"compiled", base, TRUE, "emit", "both", anc, root, "first", <<>>>> :
        base \in {<<>>, <<BaseProps>>, <<c_BaseInputProps>>, <<c_GoneProps>>},
        anc \in AncestorLayouts,
        root \in {"map", "ts", "absent"}}
StyleWorlds ==
    {<<form, <<BaseProps>>, FALSE, "none", "none", "root", root, styles, <<>>>> :
        form \in {"compiled", "direct"},
        root \in {"plain", "other", "garbage"},
        styles \in StyleLayouts}
BrokenWorlds ==
    {<<"compiled", <<BaseProps>>, TRUE, "emit", "both", "root", "map", "first", <<role, how>>>> :
        role \in BrokenRoles, how \in BrokenHows}
Worlds == EventWorlds \cup AncestorWorlds \cup StyleWorlds \cup BrokenWorlds
\* the libraries LoopConfig is run on
LoopWorlds ==
    {<<form, <<BaseProps>>, TRUE, "emit", "both", "root", root, "first", <<>>>> :
        form \in {"compiled", "direct"}, root \in {"map", "absent"}}

Init ==
    /\ \/ /\ \E w \in Worlds :
                fs = Library(w[1], w[2], w[3], w[4], w[5], w[6], w[7], w[8], w[9])
          /\ config \in Configs
       \/ /\ \E w \in LoopWorlds :
                fs = Library(w[1], w[2], w[3], w[4], w[5], w[6], w[7], w[8], w[9])
          /\ config = LoopConfig
    /\ basePropsCache = None
    /\ status = "idle"
    /\ call = None
    /\ returned = None
    /\ log = <<>>
    /\ resolutions = <<>>
    /\ firstResolved = [n \in AncestorNames |-> None]
    /\ rootReads = [p \in RootLocations |-> 0]
    /\ discovered = None
    /\ docs = <<>>
    /\ command = None
    /\ exit = None

\* the first list every ancestor name resolved to, over the invocations that
\* returned; again = the name was resolved more than once
RECURSIVE Remember(_, _)
Remember(first, calls) ==
    IF calls = <<>> THEN first
    ELSE LET c == Head(calls)
         IN Remember(IF ~c.returned THEN first
                     ELSE IF IsSome(first[c.name])
                          THEN [first EXCEPT ![c.name] = Some([Val(@) EXCEPT !.again = TRUE])]
                          ELSE [first EXCEPT ![c.name] = Some([props |-> c.props, again |-> FALSE])],
                     Tail(calls))

\* how often the getInheritedProps invocations of a call read a location
RECURSIVE CountReads(_, _)
CountReads(reads, p) ==
    IF reads = <<>> THEN 0
    ELSE (IF Head(reads) = p THEN 1 ELSE 0) + CountReads(Tail(reads), p)
ReadsOf(calls) == Flatten([i \in 1..Len(calls) |-> calls[i].reads])
Counted(n) == IF n > MaxRootReads THEN MaxRootReads ELSE n

\* a caller invokes generator.generateComponentDoc(componentPath, category)
GenerateComponentDoc(componentPath, category) ==
    /\ status = "idle"
    /\ \E out \in {generateComponentDoc(componentPath, category, basePropsCache, 1)} :
          /\ basePropsCache' = out.cache
          /\ status' = IF out.diverged = "" THEN "idle" ELSE out.diverged
          /\ call' = Some([componentPath |-> componentPath, category |-> category])
          /\ returned' = out.doc
          /\ log' = out.log
          /\ resolutions' = out.calls
          /\ firstResolved' = Remember(firstResolved, out.calls)
          /\ rootReads' = [p \in RootLocations |->
                              Counted(rootReads[p] + CountReads(ReadsOf(out.calls), p))]
    /\ UNCHANGED <<fs, config, discovered, docs, command, exit>>

Next ==
    \E componentPath \in ComponentPaths : GenerateComponentDoc(componentPath, "basic")

Spec == Init /\ [][Next]_vars

-----------------------------------------------------------------------------
(* DocumentationGenerator: discovery and batch generation                  *)

\* console.log
Info(msg, about) == [level |-> "log", msg |-> msg, about |-> about]

\* Dirent.isFile / Dirent.isDirectory of the entry at p
IsFileAt(p) == existsSync(p) /\ fs[p].kind = "file"
IsDirAt(p) == existsSync(p) /\ fs[p].kind = "dir"

\* item.name.startsWith('.') || item.name === 'node_modules': of the
\* directory names of the libraries, '.git' is the one that starts with '.'
IsSkippedDir(item) == item.stem \in {".git", "node_modules"}

\* the some() over the items of a directory
HasComponentFiles(dirPath, items) ==
    \E i \in 1..Len(items) :
        /\ IsFileAt(Append(dirPath, items[i]))
        /\ \/ items[i].ext \in {".component.js.map", ".props.js.map"}
           \/ items[i] \in {FileName("index", ".tsx"), FileName("index", ".ts")}

\* findComponentsInDir(dirPath, category, components): the list afterwards;
\* threw = a readdirSync on the way threw, which nothing here catches
RECURSIVE findComponentsInDir(_, _, _)
RECURSIVE FindInEntries(_, _, _, _)
FindInEntries(dirPath, items, category, components) ==
    IF items = <<>> THEN [threw |-> FALSE, components |-> components]
    ELSE IF IsDirAt(Append(dirPath, Head(items))) /\ ~IsSkippedDir(Head(items))
    THEN LET sub == findComponentsInDir(Append(dirPath, Head(items)), category, components)
         IN IF sub.threw THEN sub
            ELSE FindInEntries(dirPath, Tail(items), category, sub.components)
    ELSE FindInEntries(dirPath, Tail(items), category, components)
findComponentsInDir(dirPath, category, components) ==
    IF ~CanReaddir(dirPath) THEN [threw |-> TRUE, components |-> components]
    ELSE LET items == readdirSync(dirPath)
             componentName == basename(dirPath)
         IN FindInEntries(dirPath, items, category,
                IF /\ HasComponentFiles(dirPath, items)
                   /\ \/ config.includeComponents = {}
                      \/ componentName \in config.includeComponents
                THEN Append(components, [path |-> dirPath, category |-> category])
                ELSE components)

\* the loop over the categories
RECURSIVE ScanCategories(_, _, _)
ScanCategories(categoriesPath, categories, components) ==
    IF categories = <<>> THEN [threw |-> FALSE, components |-> components]
    ELSE LET found == findComponentsInDir(Append(categoriesPath, Head(categories)),
                                          basename(<<Head(categories)>>), components)
         IN IF found.threw THEN found
            ELSE ScanCategories(categoriesPath, Tail(categories), found.components)

\* findAllComponents(): componentsPath is the path <<>>
findAllComponents ==
    IF ~existsSync(<<>>)
    THEN [threw |-> FALSE, components |-> <<>>,
          log |-> <<Err("Components path not found", <<>>)>>]
    ELSE LET categoriesPath == IF existsSync(P_components) THEN P_components ELSE <<>>
         IN IF ~CanReaddir(categoriesPath)
            THEN [threw |-> TRUE, components |-> <<>>, log |-> <<>>]
            ELSE LET categories ==
                         SelectSeq(readdirSync(categoriesPath), LAMBDA name :
                             /\ IsDirAt(Append(categoriesPath, name))
                             /\ basename(<<name>>) \notin config.excludeCategories)
                     found == ScanCategories(categoriesPath, categories, <<>>)
                 IN [threw |-> found.threw, components |-> found.components,
                     log |-> IF /\ ~found.threw /\ found.components = <<>>
                                /\ config.includeComponents /= {}
                             THEN <<Warn("No components found", <<>>)>> ELSE <<>>]

\* what the loop of generateAllDocs leaves behind
Batch(docsOut, cache, logged, calls, diverged) ==
    [docs |-> docsOut, cache |-> cache, log |-> logged, calls |-> calls, diverged |-> diverged]

\* the batch of a component whose call left out, followed by the batch rest
\* of the components after it
Joined(out, said, rest) ==
    Batch((IF IsSome(out.doc) THEN <<Val(out.doc)>> ELSE <<>>) \o rest.docs, rest.cache,
          said \o out.log \o rest.log, out.calls \o rest.calls, rest.diverged)

\* console.log(`Generating docs for ...`) of generateAllDocs; a call the
\* command makes itself is not announced this way
Announced(component, announce) ==
    IF announce THEN <<Info("Generating docs for", component.path)>> ELSE <<>>

\* faulty variant: the loop ends at the first component that yields no doc
RECURSIVE GenerateEachUntilFailure(_, _, _)
RECURSIVE GoOnUntilFailure(_, _, _)
GoOnUntilFailure(components, announce, out) ==
    IF out.diverged /= "" \/ ~IsSome(out.doc)
    THEN Batch(<<>>, out.cache, Announced(Head(components), announce) \o out.log, out.calls,
               out.diverged)
    ELSE Joined(out, Announced(Head(components), announce),
                GenerateEachUntilFailure(Tail(components), out.cache, announce))
GenerateEachUntilFailure(components, cache, announce) ==
    IF components = <<>> THEN Batch(<<>>, cache, <<>>, <<>>, "")
    ELSE GoOnUntilFailure(components, announce,
             generateComponentDoc(Head(components).path, Head(components).category, cache, 1))

\* the loop of generateAllDocs over the components found, with
\* this.basePropsCache = cache at its start: GoOn is the rest of one turn
\* after its generateComponentDoc call left out
RECURSIVE GenerateEach(_, _, _)
RECURSIVE GoOn(_, _, _)
GoOn(components, announce, out) ==
    IF out.diverged /= ""
    THEN Batch(<<>>, out.cache, Announced(Head(components), announce) \o out.log, out.calls,
               out.diverged)
    ELSE Joined(out, Announced(Head(components), announce),
                GenerateEach(Tail(components), out.cache, announce))
GenerateEach(components, cache, announce) ==
    IF components = <<>> THEN Batch(<<>>, cache, <<>>, <<>>, "")
    ELSE GoOn(components, announce,
             generateComponentDoc(Head(components).path, Head(components).category, cache, 1))

-----------------------------------------------------------------------------
(* The generate command (index.ts).  The options are --all and             *)
(* --component <name>; --output names a directory outside componentsPath   *)
(* and the narrative renderer is not part of the model.                    *)

\* how a command ended: process.exit(code), the end of the action, or an
\* exception nothing catches
Exit(code, by) == [code |-> code, by |-> by]

\* what one run of the command leaves behind
Run(ended, found, logged, called, doc) ==
    [exit |-> ended, discovered |-> found, log |-> logged, call |-> called, doc |-> doc]

\* components.find(c => basename(c.path).toLowerCase() === name.toLowerCase()):
\* the directory names of the libraries are lower-case
FindComponent(components, name) ==
    FirstOf(SelectSeq(components, LAMBDA c : basename(c.path) = Concat(toLowerCase(name))))

\* the components the command has the generator process, found being what
\* findAllComponents gave: all of them under --all (generateAllDocs), the
\* one requested under --component, none when the command ends before
Targets(options, found) ==
    IF ~existsSync(<<>>) \/ found.threw THEN <<>>
    ELSE IF options.all THEN found.components
    ELSE IF IsSome(options.component) /\ IsSome(FindComponent(found.components, Val(options.component)))
    THEN <<Val(FindComponent(found.components, Val(options.component)))>>
    ELSE <<>>

\* the component a --component command called generateComponentDoc for
Called(targets) ==
    IF targets = <<>> THEN None
    ELSE Some([componentPath |-> targets[1].path, category |-> targets[1].category])

\* the action of the generate command on a new generator: found is what
\* findAllComponents gave and batch what the processing of Targets left
GenerateCommand(options, found, batch) ==
    IF ~existsSync(<<>>)
    THEN Run(Some(Exit(1, "process.exit")), None,
             <<Err("Components source path not found", <<>>)>>, None, None)
    ELSE IF found.threw
    THEN Run(Some(Exit(1, "uncaught")), None, <<>>, None, None)
    ELSE IF options.all
    THEN Run(IF batch.diverged /= "" THEN None ELSE Some(Exit(0, "end")),
             Some(found.components), found.log \o batch.log, None, None)
    ELSE IF IsSome(options.component)
    THEN IF Targets(options, found) = <<>>
         THEN Run(Some(Exit(1, "process.exit")), Some(found.components),
                  found.log \o <<Err("Component not found", <<>>)>>, None, None)
         ELSE IF batch.diverged /= ""
         THEN Run(None, Some(found.components), found.log \o batch.log,
                  Called(Targets(options, found)), None)
         ELSE IF batch.docs /= <<>>
         THEN Run(Some(Exit(0, "end")), Some(found.components), found.log \o batch.log,
                  Called(Targets(options, found)), Some(batch.docs[1]))
         ELSE Run(Some(Exit(1, "process.exit")), Some(found.components),
                  found.log \o batch.log \o <<Err("Failed to generate documentation", <<>>)>>,
                  Called(Targets(options, found)), None)
    ELSE Run(Some(Exit(0, "help")), None,
             <<Err("Please specify --all or --component <name>", <<>>)>>, None, None)

\* the libraries of the commands: a library as above with
\*   root    "dir"        componentsPath is a directory
\*           "unlistable" it is a directory that cannot be listed
\*           "file"       it is a file
\*           "missing"    it does not exist
\*   locked  "unlistable" components/basic/locked cannot be listed
\*           "empty"      it is an empty directory
\*   fault   the components whose behavior file (accordion) or properties
\*           artifact (baseinput) cannot be read or decoded
\* and the directory components/basic/.git, which holds an index.ts
RunLibrary(form, anc, root, locked, fault) ==
    IF root = "missing" THEN <<>>
    ELSE IF root = "file" THEN (<<>> :> TextFile(EmptyText))
    ELSE (IF root = "unlistable"
          THEN (<<>> :> Unreadable(DirNode(<<DirName("components"), DirName("core")>>)))
          ELSE <<>>)
         @@ (IF locked = "empty" THEN (P_locked :> DirNode(<<>>)) ELSE <<>>)
         @@ (IF "accordion" \in fault
             THEN (Append(P_accordion, FileName("accordion", ".component.js")) :>
                       Unreadable(TextFile(EmptyText)))
                  @@ (Append(P_accordion, FileName("index", ".tsx")) :>
                       Unreadable(TextFile(EmptyText)))
             ELSE <<>>)
         @@ (IF "baseinput" \in fault
             THEN (Append(P_baseinput, FileName("baseinput", ".props.js.map")) :>
                       FileNode(GarbageBody))
             ELSE <<>>)
         @@ (P_basic :> DirNode(<<DirName(".git"), DirName("accordion"), DirName("locked")>>))
         @@ (Append(P_basic, DirName(".git")) :> DirNode(<<FileName("index", ".ts")>>))
         @@ (Append(Append(P_basic, DirName(".git")), FileName("index", ".ts")) :>
                 TextFile(EmptyText))
         @@ Library(form, <<BaseProps>>, TRUE, "emit", "both", anc, "map", "first", <<>>)

RunWorlds ==
    {<<form, anc, "dir", locked, fault>> :
        form \in {"compiled", "direct"},
        anc \in {"root", "gone", "self"},
        locked \in {"unlistable", "empty"},
        fault \in SUBSET {"accordion", "baseinput"}}
    \cup {<<"compiled", "root", root, "empty", {}>> : root \in {"unlistable", "file", "missing"}}

\* the command lines: --all, --component <name> for a component in other
\* case, a nested one, one of another category and one that does not exist,
\* and neither option
c_Accordion == <<"A", "c", "c", "o", "r", "d", "i", "o", "n">>
c_accordionpane == toLowerCase(c_Accordion) \o <<"p", "a", "n", "e">>
c_baseinput == <<"b", "a", "s", "e", "i", "n", "p", "u", "t">>
c_ghost == <<"g", "h", "o", "s", "t">>
RunOptions ==
    {[all |-> TRUE, component |-> None], [all |-> FALSE, component |-> None]}
    \cup {[all |-> FALSE, component |-> Some(name)] :
             name \in {c_Accordion, c_accordionpane, c_baseinput, c_ghost}}

RunInit ==
    /\ \E w \in RunWorlds : fs = RunLibrary(w[1], w[2], w[3], w[4], w[5])
    /\ config \in Configs
    /\ basePropsCache = None
    /\ status = "idle"
    /\ command = None
    /\ call = None
    /\ returned = None
    /\ log = <<>>
    /\ resolutions = <<>>
    /\ firstResolved = [n \in AncestorNames |-> None]
    /\ rootReads = [p \in RootLocations |-> 0]
    /\ discovered = None
    /\ docs = <<>>
    /\ exit = None

\* wm-doc-generator generate <options>: a process that runs the action on a
\* generator of its own
Generate(options) ==
    /\ \E found \in {findAllComponents} :
       \E batch \in {GenerateEach(Targets(options, found), None, options.all)} :
       \E run \in {GenerateCommand(options, found, batch)} :
          /\ command' = Some(options)
          /\ exit' = run.exit
          /\ discovered' = run.discovered
          /\ docs' = IF options.all THEN batch.docs ELSE <<>>
          /\ basePropsCache' = batch.cache
          /\ status' = IF batch.diverged = "" THEN "idle" ELSE batch.diverged
          /\ call' = run.call
          /\ returned' = run.doc
          /\ log' = run.log
          /\ resolutions' = batch.calls
    /\ UNCHANGED <<fs, config, firstResolved, rootReads>>

RunNext == \E options \in RunOptions : Generate(options)

RunSpec == RunInit /\ [][RunNext]_vars

-----------------------------------------------------------------------------
(* Properties.  They speak about the last call (call, returned, log,       *)
(* resolutions), about the file system and configuration it ran on, and    *)
(* about the resolutions of the whole run (firstResolved).                 *)

\* a returned doc and the child docs nested in it
RECURSIVE DocsOf(_)
DocsOf(doc) ==
    {doc} \cup (IF IsSome(doc.children)
                THEN UNION {DocsOf(Val(doc.children)[i]) : i \in 1..Len(Val(doc.children))}
                ELSE {})
ReturnedDocs == IF IsSome(returned) THEN DocsOf(Val(returned)) ELSE {}

\* what the Props declaration of the component at p holds: its own descriptors
\* and the ancestor it declares
PropsInfoAt(p) ==
    IF ~CanReaddir(p) THEN None
    ELSE LET sources == extractComponentSources(p)
         IN IF Truthy(sources.props) THEN extractProps(Val(sources.props)) ELSE None
OwnPropsAt(p) == IF IsSome(PropsInfoAt(p)) THEN Val(PropsInfoAt(p)).props ELSE <<>>
DeclaredBaseAt(p) == IF IsSome(PropsInfoAt(p)) THEN Val(PropsInfoAt(p)).baseClass ELSE None

\* the unfiltered property list of the component at p: own descriptors, then
\* the descriptors its ancestor chain resolves to
AllPropsAt(p) ==
    OwnPropsAt(p)
    \o (IF IsSome(DeclaredBaseAt(p))
        THEN getInheritedProps(Val(DeclaredBaseAt(p)), basePropsCache, 1).props
        ELSE <<>>)

\* the entry of a list of events that carries a name: the first, the last
EventNamed(events, name) ==
    events[CHOOSE i \in 1..Len(events) :
               events[i].name = name /\ \A j \in 1..(i - 1) : events[j].name /= name]
LastNamed(events, name) ==
    events[CHOOSE i \in 1..Len(events) :
               events[i].name = name /\ \A j \in (i + 1)..Len(events) : events[j].name /= name]

\* the declared events of the component at p with their declaration-derived
\* signatures; of two declarations of a name the later one is the one kept
DeclaredEventsAt(p) == PropsEvents(AllPropsAt(p))

\* the behavior source the extractor locates for the component at p: its call
\* sites (the first per name) and the files its internal imports name
BehaviorSourceAt(p) ==
    IF CanReaddir(p) THEN extractComponentSources(p).component ELSE None
EmittedInSourceAt(p) ==
    IF Truthy(BehaviorSourceAt(p)) THEN extractEventCallbacks(Val(BehaviorSourceAt(p)))
    ELSE <<>>
ImportsOfSourceAt(p) ==
    IF Truthy(BehaviorSourceAt(p)) THEN findReferencedComponents(Val(BehaviorSourceAt(p)))
    ELSE <<>>

\* the compiled behavior file <componentName>.component.js of the component at
\* p: its call sites and the files its internal imports name
CompiledJsAt(p) == Append(p, FileName(basename(p), ".component.js"))
EmittedInJsAt(p) ==
    IF CanReadFile(CompiledJsAt(p)) THEN extractEventCallbacks(readFileSync(CompiledJsAt(p)))
    ELSE <<>>
ImportsOfJsAt(p) ==
    IF CanReadFile(CompiledJsAt(p)) THEN findReferencedComponents(readFileSync(CompiledJsAt(p)))
    ELSE <<>>

\* the call sites of a file, and the event a name takes from a list of files:
\* the first call site of the first file that has one
EmittedIn(file) ==
    IF CanReadFile(file) THEN extractEventCallbacks(readFileSync(file)) ELSE <<>>
RECURSIVE FirstEmitting(_, _)
FirstEmitting(files, name) ==
    IF files = <<>> THEN None
    ELSE IF HasEvent(EmittedIn(Head(files)), name)
         THEN Some(EventNamed(EmittedIn(Head(files)), name))
         ELSE FirstEmitting(Tail(files), name)

\* two frames of resolutions belong to one ancestor chain
SameChain(i, j) ==
    i < j /\ resolutions[j].depth - resolutions[i].depth = j - i

-----------------------------------------------------------------------------
\* C1: in every doc returned by generateComponentDoc, the top-level doc and
\* every nested child doc, no two entries of events have the same name
C1_EventNamesUnique ==
    \A d \in ReturnedDocs :
        \A i, j \in 1..Len(d.events) : d.events[i].name = d.events[j].name => i = j

\* a doc with children was returned for a component that declares onTap, emits
\* it in its own behavior file and imports a component that emits it too,
\* while its child declares and emits onLong
C1_Witness ==
    /\ IsSome(returned)
    /\ Val(returned).componentPath = P_accordion
    /\ HasEvent(DeclaredEventsAt(P_accordion), n_onTap)
    /\ HasEvent(EmittedInJsAt(P_accordion), n_onTap)
    /\ IsSome(FirstEmitting(ImportsOfJsAt(P_accordion), n_onTap))
    /\ HasEvent(Val(returned).events, n_onTap)
    /\ \E c \in ReturnedDocs :
           /\ c.componentPath = P_pane
           /\ HasEvent(DeclaredEventsAt(P_pane), n_onLong)
           /\ HasEvent(EmittedInJsAt(P_pane), n_onLong)
           /\ HasEvent(c.events, n_onLong)

\* C2: when a name is a declared event of a component and is emitted at a call
\* site of the component's own behavior source (the one the extractor locates:
\* the entry file, or the original source of the compiled behavior artifact),
\* the entry of that name in the doc's events carries the signature of the
\* call site
C2_EmittedSignatureRetained ==
    \A d \in ReturnedDocs :
        LET emitted == EmittedInSourceAt(d.componentPath)
            declared == DeclaredEventsAt(d.componentPath)
        IN \A i \in 1..Len(emitted) :
               HasEvent(declared, emitted[i].name) =>
                   /\ HasEvent(d.events, emitted[i].name)
                   /\ EventNamed(d.events, emitted[i].name).parameters = emitted[i].parameters

\* C3 as stated: an entry whose name is a declared event or an event emitted
\* by the component's own compiled behavior file is the local one, whatever
\* the imported components emit
C3_LocalNamesKept ==
    \A d \in ReturnedDocs :
        \A i \in 1..Len(d.events) :
            LET e == d.events[i]
                own == EmittedInJsAt(d.componentPath)
                declared == DeclaredEventsAt(d.componentPath)
            IN IF HasEvent(own, e.name) THEN e = CallbackEvent(EventNamed(own, e.name))
               ELSE HasEvent(declared, e.name) => e = LastNamed(declared, e.name)

\* C3, amended: the event of an imported component never replaces an entry
\* whose name the component's own compiled behavior file emits; a name that is
\* only declared takes the event of the first imported file that emits it,
\* and keeps its declared entry when none does
C3_OwnEmittedNamesKept ==
    \A d \in ReturnedDocs :
        \A i \in 1..Len(d.events) :
            LET e == d.events[i]
                own == EmittedInJsAt(d.componentPath)
                imported == FirstEmitting(ImportsOfJsAt(d.componentPath), e.name)
                declared == DeclaredEventsAt(d.componentPath)
            IN IF HasEvent(own, e.name) THEN e = CallbackEvent(EventNamed(own, e.name))
               ELSE IF IsSome(imported) THEN e = CallbackEvent(Val(imported))
               ELSE HasEvent(declared, e.name) /\ e = LastNamed(declared, e.name)

\* a doc was returned for a component whose behavior file emits onTap and
\* imports a component emitting onTap with another signature and onLong, which
\* the component only declares
C3_Witness ==
    /\ IsSome(returned)
    /\ Val(returned).componentPath = P_accordion
    /\ HasEvent(EmittedInJsAt(P_accordion), n_onTap)
    /\ IsSome(FirstEmitting(ImportsOfJsAt(P_accordion), n_onTap))
    /\ Val(FirstEmitting(ImportsOfJsAt(P_accordion), n_onTap)).parameters
           /= EventNamed(EmittedInJsAt(P_accordion), n_onTap).parameters
    /\ HasEvent(Val(returned).events, n_onTap)
    /\ HasEvent(DeclaredEventsAt(P_accordion), n_onLong)
    /\ ~HasEvent(EmittedInJsAt(P_accordion), n_onLong)
    /\ IsSome(FirstEmitting(ImportsOfJsAt(P_accordion), n_onLong))
    /\ HasEvent(Val(returned).events, n_onLong)

\* C4: a declared event that no call site emits keeps its declaration-derived
\* entry, and an event that only a component imported by the behavior source
\* emits is in the doc's events with the signature of that call site, in
\* either on-disk representation of the component
C4_ScenarioC ==
    \A d \in ReturnedDocs :
        LET own == EmittedInSourceAt(d.componentPath)
            imports == ImportsOfSourceAt(d.componentPath)
            declared == DeclaredEventsAt(d.componentPath)
        IN /\ \A i \in 1..Len(declared) :
                  (/\ ~HasEvent(own, declared[i].name)
                   /\ ~IsSome(FirstEmitting(imports, declared[i].name)))
                  => /\ HasEvent(d.events, declared[i].name)
                     /\ EventNamed(d.events, declared[i].name)
                            = LastNamed(declared, declared[i].name)
           /\ \A k \in 1..Len(imports) :
                  \A j \in 1..Len(EmittedIn(imports[k])) :
                      LET y == EmittedIn(imports[k])[j]
                      IN (/\ ~HasEvent(own, y.name)
                          /\ ~HasEvent(declared, y.name)
                          /\ FirstEmitting(imports, y.name) = Some(y))
                         => /\ HasEvent(d.events, y.name)
                            /\ EventNamed(d.events, y.name) = CallbackEvent(y)

\* the unfiltered methods and styles of the component at p
MethodsAt(p) ==
    IF Truthy(BehaviorSourceAt(p)) /\ IsSome(extractMethods(Val(BehaviorSourceAt(p))))
    THEN Val(extractMethods(Val(BehaviorSourceAt(p)))).methods ELSE <<>>
StylesAt(p) == IF CanReaddir(p) THEN StyleList(extractComponentSources(p).styles) ELSE <<>>

\* the exclude-lists of the component named componentName: the global ones
\* joined with the ones of its override
ExcludedPropNames(componentName) ==
    config.documentation.excludeProps
    \cup (IF IsSome(Overrides(componentName)) /\ IsSome(Val(Overrides(componentName)).excludeProps)
          THEN Val(Val(Overrides(componentName)).excludeProps) ELSE {})
ExcludedMethodNames(componentName) ==
    config.documentation.excludeMethods
    \cup (IF IsSome(Overrides(componentName)) /\ IsSome(Val(Overrides(componentName)).excludeMethods)
          THEN Val(Val(Overrides(componentName)).excludeMethods) ELSE {})
ExcludedStyleNames(componentName) ==
    config.documentation.excludeStyleClasses
    \cup (IF /\ IsSome(Overrides(componentName))
             /\ IsSome(Val(Overrides(componentName)).excludeStyleClasses)
          THEN Val(Val(Overrides(componentName)).excludeStyleClasses) ELSE {})

\* C5 as stated: no descriptor of a returned doc, own or inherited, has a name
\* of excludeProps, of excludeInheritedProps or of the component's override
\* list; no method and no style class has a name of its exclude-lists
C5_ExcludedNeverSurfaces ==
    \A d \in ReturnedDocs :
        /\ \A i \in 1..Len(d.props) :
               /\ d.props[i].name \notin ExcludedPropNames(d.componentName)
               /\ d.props[i].name \notin config.documentation.excludeInheritedProps
        /\ \A i \in 1..Len(d.methods) :
               d.methods[i].name \notin ExcludedMethodNames(d.componentName)
        /\ \A i \in 1..Len(d.styles) :
               d.styles[i].className \notin ExcludedStyleNames(d.componentName)

\* C5, amended: no descriptor of a returned doc has a name of excludeProps or
\* of the component's override list, and no inherited descriptor has a name of
\* excludeInheritedProps (an own descriptor of such a name stays); no method
\* and no style class has a name of its global or per-component exclude-list
C5_ExcludedByApplicableList ==
    \A d \in ReturnedDocs :
        /\ \A i \in 1..Len(d.props) :
               /\ d.props[i].name \notin ExcludedPropNames(d.componentName)
               /\ d.props[i].inherited
                      => d.props[i].name \notin config.documentation.excludeInheritedProps
        /\ \A i \in 1..Len(d.methods) :
               d.methods[i].name \notin ExcludedMethodNames(d.componentName)
        /\ \A i \in 1..Len(d.styles) :
               d.styles[i].className \notin ExcludedStyleNames(d.componentName)
        /\ \A i \in 1..Len(OwnPropsAt(d.componentPath)) :
               OwnPropsAt(d.componentPath)[i].name \notin ExcludedPropNames(d.componentName)
                   => OwnPropsAt(d.componentPath)[i] \in Range(d.props)

\* a doc was returned for a component that has an own and an inherited
\* descriptor named id, id being inherited-excluded, and that has a property,
\* a method and a style class named in an exclude-list that applies
C5_Witness ==
    /\ IsSome(returned)
    /\ Val(returned).componentPath = P_accordion
    /\ n_id \in config.documentation.excludeInheritedProps
    /\ \E i \in 1..Len(OwnPropsAt(P_accordion)) : OwnPropsAt(P_accordion)[i].name = n_id
    /\ \E i \in 1..Len(AllPropsAt(P_accordion)) :
           AllPropsAt(P_accordion)[i].name = n_id /\ AllPropsAt(P_accordion)[i].inherited
    /\ \E i \in 1..Len(Val(returned).props) : Val(returned).props[i].name = n_id
    /\ \E i \in 1..Len(AllPropsAt(P_accordion)) :
           AllPropsAt(P_accordion)[i].name \in ExcludedPropNames("accordion")
    /\ \E i \in 1..Len(MethodsAt(P_accordion)) :
           MethodsAt(P_accordion)[i].name \in ExcludedMethodNames("accordion")
    /\ \E i \in 1..Len(StylesAt(P_accordion)) :
           StylesAt(P_accordion)[i].className \in ExcludedStyleNames("accordion")

\* C6: no chain of getInheritedProps frames enters an ancestor name twice, and
\* every frame returns
C6_CycleGuarded ==
    /\ status /= "ancestors"
    /\ \A i, j \in 1..Len(resolutions) :
           SameChain(i, j) => resolutions[i].name /= resolutions[j].name
    /\ \A i \in 1..Len(resolutions) : resolutions[i].returned

\* C7 as stated: every descriptor of the list a getInheritedProps invocation
\* returns is tagged inherited and inheritedFrom the name it was invoked with
C7_TaggedWithRequestedName ==
    \A i \in 1..Len(resolutions) :
        resolutions[i].returned =>
            \A k \in 1..Len(resolutions[i].props) :
                /\ resolutions[i].props[k].inherited
                /\ resolutions[i].props[k].inheritedFrom = Some(resolutions[i].name)

\* C7, amended: the list a getInheritedProps invocation returns is the
\* descriptors of the artifact of the name it was invoked with, each tagged
\* inherited and inheritedFrom that name, followed by the list the invocation
\* for the next ancestor of the chain returned, whose descriptors keep the tags
\* of the ancestors that declared them
C7_TaggedWithDeclaringAncestor ==
    \A i \in 1..Len(resolutions) :
        LET r == resolutions[i]
            up == IF i < Len(resolutions) /\ resolutions[i + 1].depth = r.depth + 1
                  THEN resolutions[i + 1].props ELSE <<>>
            own == Len(r.props) - Len(up)
        IN r.returned =>
               /\ own >= 0
               /\ SubSeq(r.props, own + 1, Len(r.props)) = up
               /\ \A k \in 1..Len(r.props) :
                      /\ r.props[k].inherited
                      /\ k <= own => r.props[k].inheritedFrom = Some(r.name)

\* a chain of three frames returned, each ancestor contributing descriptors
C7_Witness ==
    \E i \in 1..Len(resolutions) :
        /\ i + 2 <= Len(resolutions)
        /\ SameChain(i, i + 2)
        /\ resolutions[i].returned
        /\ resolutions[i + 2].props /= <<>>
        /\ Len(resolutions[i + 1].props) > Len(resolutions[i + 2].props)
        /\ Len(resolutions[i].props) > Len(resolutions[i + 1].props)

\* C8: in every returned doc, nested children included, a property descriptor
\* carries inheritedFrom if and only if its inherited flag is true
C8_InheritedFromIffInherited ==
    \A d \in ReturnedDocs :
        \A i \in 1..Len(d.props) :
            IsSome(d.props[i].inheritedFrom) <=> d.props[i].inherited

\* a doc with a child doc was returned that holds an own descriptor, a
\* descriptor of an ancestor artifact and a descriptor of the cached root set
C8_Witness ==
    /\ IsSome(returned)
    /\ IsSome(Val(returned).children)
    /\ IsSome(basePropsCache)
    /\ \E d \in ReturnedDocs :
           /\ \E i \in 1..Len(d.props) : ~d.props[i].inherited
           /\ \E i \in 1..Len(d.props) : d.props[i].inheritedFrom = Some(c_BaseInputProps)
           /\ \E i \in 1..Len(d.props) :
                  /\ d.props[i].inheritedFrom = Some(BaseProps)
                  /\ d.props[i] \in Range(TagAll(Val(basePropsCache), BaseProps))

\* the warning getInheritedProps logs for an ancestor name it cannot locate
UnresolvedWarning(name) ==
    [level |-> "warn", msg |-> "Could not find props file for parent class", about |-> name]

\* an ancestor name other than the root for which no candidate stem matches a
\* properties artifact in any source root
Unresolvable(name) == name /= BaseProps /\ ~IsSome(findParentPropsFile(name))

\* C9: a getInheritedProps invocation for a name no candidate of which matches
\* logs the warning and returns the empty list, and a returning
\* generateComponentDoc call for a component that declares such an ancestor
\* returns a doc whose baseClass is the declared name and whose props are the
\* component's own descriptors, as far as the configured exclusions keep them
C9_UnresolvedAncestorNotFatal ==
    /\ \A i \in 1..Len(resolutions) :
           Unresolvable(resolutions[i].name) =>
               /\ resolutions[i].returned
               /\ resolutions[i].props = <<>>
               /\ UnresolvedWarning(resolutions[i].name) \in Range(log)
    /\ \A p \in ComponentPaths :
           (/\ call = Some([componentPath |-> p, category |-> "basic"])
            /\ status = "idle"
            /\ IsSome(DeclaredBaseAt(p))
            /\ Unresolvable(Val(DeclaredBaseAt(p))))
           => /\ IsSome(returned)
              /\ Val(returned).baseClass = DeclaredBaseAt(p)
              /\ Val(returned).props =
                     SelectSeq(OwnPropsAt(p), LAMBDA prop : KeepProp(Val(returned), prop))

\* a doc holding own descriptors was returned for a component whose declared
\* ancestor has no artifact, after the warning
C9_Witness ==
    /\ call = Some([componentPath |-> P_accordion, category |-> "basic"])
    /\ DeclaredBaseAt(P_accordion) = Some(c_GoneProps)
    /\ Unresolvable(c_GoneProps)
    /\ IsSome(returned)
    /\ Val(returned).baseClass = Some(c_GoneProps)
    /\ Val(returned).props /= <<>>
    /\ UnresolvedWarning(c_GoneProps) \in Range(log)
    /\ \E i \in 1..Len(resolutions) :
           resolutions[i].name = c_GoneProps /\ resolutions[i].depth = 1

\* C10: every getInheritedProps invocation that returns yields the list the
\* first invocation for the same name in the run yielded
C10_ResolutionRepeatable ==
    \A i \in 1..Len(resolutions) :
        resolutions[i].returned =>
            /\ IsSome(firstResolved[resolutions[i].name])
            /\ Val(firstResolved[resolutions[i].name]).props = resolutions[i].props

\* the root, served from the populated cache, and another ancestor were both
\* resolved again, to non-empty lists, the last call resolving both
C10_Witness ==
    /\ IsSome(basePropsCache)
    /\ IsSome(firstResolved[BaseProps])
    /\ Val(firstResolved[BaseProps]).again
    /\ Val(firstResolved[BaseProps]).props /= <<>>
    /\ IsSome(firstResolved[c_BaseInputProps])
    /\ Val(firstResolved[c_BaseInputProps]).again
    /\ Val(firstResolved[c_BaseInputProps]).props /= <<>>
    /\ \E i, j \in 1..Len(resolutions) :
           /\ resolutions[i].name = BaseProps /\ resolutions[i].depth = 1
           /\ resolutions[j].name = c_BaseInputProps

-----------------------------------------------------------------------------
\* C11: once basePropsCache is populated no generateComponentDoc call, with
\* the getInheritedProps invocations it makes, assigns it again or changes
\* what it holds, and the descriptors it holds stay the root declaration's
\* own ones: none carries the inherited tag the resolutions put on the copies
\* they hand out
C11_CacheWriteOnce ==
    [][/\ IsSome(basePropsCache) => basePropsCache' = basePropsCache
       /\ IsSome(basePropsCache') =>
              \A i \in 1..Len(Val(basePropsCache')) :
                  /\ ~Val(basePropsCache')[i].inherited
                  /\ Val(basePropsCache')[i].inheritedFrom = None]_vars

\* a doc was returned by a call that resolved the root from the populated
\* cache, tagged the cached descriptors and appended them to a property list
C11_Witness ==
    /\ IsSome(basePropsCache)
    /\ Val(basePropsCache) /= <<>>
    /\ IsSome(returned)
    /\ \E i \in 1..Len(resolutions) :
           /\ resolutions[i].name = BaseProps
           /\ resolutions[i].reads = <<>>
           /\ resolutions[i].props = TagAll(Val(basePropsCache), BaseProps)
    /\ \E d \in ReturnedDocs :
           \E k \in 1..Len(d.props) :
               /\ ~d.props[1].inherited
               /\ d.props[k].inheritedFrom = Some(BaseProps)

\* C12: in a run no well-known root location is read more than once, whatever
\* the first computation of the root set yielded, and all resolutions of the
\* root return the same list
C12_RootComputedOnce ==
    /\ \A p \in RootLocations : rootReads[p] <= 1
    /\ \A i, j \in 1..Len(resolutions) :
           (resolutions[i].name = BaseProps /\ resolutions[j].name = BaseProps)
               => resolutions[i].props = resolutions[j].props

\* the Props declaration of the component at p: of the class, interface and
\* type-literal declarations of its properties source whose name ends in
\* Props, the one visited last
PropsSourceAt(p) == IF CanReaddir(p) THEN extractComponentSources(p).props ELSE None
PropsDeclsAt(p) ==
    IF Truthy(PropsSourceAt(p)) THEN SelectSeq(Val(PropsSourceAt(p)).decls, IsPropsDecl)
    ELSE <<>>
PropsDeclAt(p) == Last(PropsDeclsAt(p))

\* the own descriptors of a doc, and the names of a list
OwnOf(doc) == SelectSeq(doc.props, LAMBDA prop : ~prop.inherited)
NamesOf(list) == [i \in 1..Len(list) |-> list[i].name]

\* C13 as stated: the number of own descriptors of a returned doc is the
\* number of members of the component's Props declaration that have a name
C13_OwnCountIsNamedMembers ==
    \A d \in ReturnedDocs :
        PropsDeclsAt(d.componentPath) /= <<>> =>
            Len(OwnOf(d)) = Len(SelectSeq(PropsDeclAt(d.componentPath).members,
                                          LAMBDA m : m.named))

\* C13, amended: the own descriptors of a returned doc are, in declaration
\* order, the property-shaped members of the component's Props declaration
\* (method-shaped members and index signatures are left out) whose name is in
\* no exclude-list that applies to the component, so their number is the
\* number of those members
C13_OwnCountIsKeptProperties ==
    \A d \in ReturnedDocs :
        PropsDeclsAt(d.componentPath) /= <<>> =>
            LET kept == SelectSeq(PropsDeclAt(d.componentPath).members,
                                  LAMBDA m : /\ m.isProperty
                                             /\ m.name \notin ExcludedPropNames(d.componentName))
            IN /\ NamesOf(OwnOf(d)) = NamesOf(kept)
               /\ Len(OwnOf(d)) = Len(kept)

\* a doc was returned for a component whose Props declaration has a
\* method-shaped member, an excluded property member and members that stay
C13_Witness ==
    /\ IsSome(returned)
    /\ Val(returned).componentPath = P_accordion
    /\ PropsDeclsAt(P_accordion) /= <<>>
    /\ \E i \in 1..Len(PropsDeclAt(P_accordion).members) :
           LET m == PropsDeclAt(P_accordion).members[i] IN m.named /\ ~m.isProperty
    /\ \E i \in 1..Len(PropsDeclAt(P_accordion).members) :
           LET m == PropsDeclAt(P_accordion).members[i]
           IN m.isProperty /\ m.name \in ExcludedPropNames("accordion")
    /\ Len(OwnOf(Val(returned))) >= 2

\* the descriptors of Scenario A
ScenarioACaption ==
    [name |-> n_caption, type |-> t_string, optional |-> FALSE, defaultValue |-> None,
     inherited |-> FALSE, inheritedFrom |-> None]
ScenarioADisabled ==
    [name |-> n_disabled, type |-> t_boolean, optional |-> TRUE, defaultValue |-> None,
     inherited |-> FALSE, inheritedFrom |-> None]
ScenarioAId ==
    [name |-> n_id, type |-> t_string, optional |-> FALSE, defaultValue |-> None,
     inherited |-> TRUE, inheritedFrom |-> Some(BaseProps)]

\* the library holds Scenario A at p: the component's Props declaration is
\* { caption: string; disabled?: boolean } extending BaseProps, and the root
\* artifact declares  class BaseProps { id: string }
ScenarioAAt(p) ==
    /\ PropsDeclsAt(p) /= <<>>
    /\ PropsDeclAt(p).members = <<Member(n_caption, Some(t_string), FALSE, None),
                                   Member(n_disabled, Some(t_boolean), TRUE, None)>>
    /\ PropsDeclAt(p).heritage = <<BaseProps>>
    /\ existsSync(BaseComponentPath)
    /\ fs[BaseComponentPath] = SourceMapOf(PlainBaseText)

Uncast(initText) ==
    IF Len(initText) >= 3 /\ initText[Len(initText) - 1] = "as"
    THEN SubSeq(initText, 1, Len(initText) - 2)
    ELSE initText

\* C15: the own descriptor of a class member that has an initializer carries
\* the initializer text as its default value, a trailing cast to any type
\* removed
C15_CastsNormalized ==
    \A d \in ReturnedDocs :
        PropsDeclsAt(d.componentPath) /= <<>> =>
            \A i \in 1..Len(PropsDeclAt(d.componentPath).members) :
                LET m == PropsDeclAt(d.componentPath).members[i]
                IN (/\ PropsDeclAt(d.componentPath).kind = "class"
                    /\ m.isProperty
                    /\ IsSome(m.init))
                   => \A k \in 1..Len(d.props) :
                          (d.props[k].name = m.name /\ ~d.props[k].inherited)
                              => d.props[k].defaultValue = Some(Uncast(Val(m.init)))

\* the style descriptors of a doc that are marked as the default style class
DefaultStyles(doc) ==
    {i \in 1..Len(doc.styles) : doc.styles[i].description = Some("Default style class")}

\* C16: every returned doc, nested child docs included, has exactly one style
\* descriptor marked as the default style class
C16_ExactlyOneDefaultStyle ==
    \A d \in ReturnedDocs : Cardinality(DefaultStyles(d)) = 1

\* the style source of the component at p, the values its DEFAULT_CLASS
\* constant is defined with, and the literals s of its registration calls
\* addStyle(DEFAULT_CLASS + 's', ...)
StyleSourceAt(p) == IF CanReaddir(p) THEN extractComponentSources(p).styles ELSE None
StyleStatementsAt(p) == IF Truthy(StyleSourceAt(p)) THEN Val(StyleSourceAt(p)).styles ELSE <<>>
DefaultConstantsAt(p) ==
    {st.text : st \in {x \in Range(StyleStatementsAt(p)) :
                           x.k = "var" /\ x.name = "DEFAULT_CLASS" /\ x.isStringLiteral}}
RegisteredSuffixesAt(p) ==
    {Val(st.arg).operands[2].text :
        st \in {x \in Range(StyleStatementsAt(p)) :
                    /\ x.k = "call" /\ x.callee = "addStyle"
                    /\ x.calleeForm \in {"identifier", "property"}
                    /\ IsSome(x.arg) /\ Val(x.arg).k = "binary"
                    /\ Len(Val(x.arg).operands) = 2
                    /\ Val(x.arg).operands[1] = Ident("DEFAULT_CLASS")
                    /\ Val(x.arg).operands[2].k = "string"}}

\* C17: when the style source of a component defines DEFAULT_CLASS with the
\* string d and registers DEFAULT_CLASS + 's', the styles of its doc hold d,
\* marked as the default, and the class name d followed by s (each unless an
\* exclude-list names it), wherever the definition of the constant stands
C17_ScenarioB ==
    \A doc \in ReturnedDocs :
        \A d \in DefaultConstantsAt(doc.componentPath) :
            \A s \in RegisteredSuffixesAt(doc.componentPath) :
                /\ d \notin ExcludedStyleNames(doc.componentName)
                       => \E i \in DefaultStyles(doc) : doc.styles[i].className = d
                /\ (d \o s) \notin ExcludedStyleNames(doc.componentName)
                       => \E i \in 1..Len(doc.styles) : doc.styles[i].className = d \o s

\* the declarations of the behavior source of the component at p
BehaviorDeclsAt(p) ==
    IF Truthy(BehaviorSourceAt(p)) THEN Val(BehaviorSourceAt(p)).decls ELSE <<>>

\* the method members named name that are public, in the class declarations
\* of the component at p whose name ends in none of Props, Styles, State
PublicSourceMethodsAt(p, name) ==
    UNION {{sm \in Range(c.methods) :
                /\ sm.name = name
                /\ "private" \notin Range(sm.modifiers)
                /\ "protected" \notin Range(sm.modifiers)} :
           c \in {x \in Range(BehaviorDeclsAt(p)) :
                      /\ x.kind = "class"
                      /\ ~endsWith(x.name, Props)
                      /\ ~endsWith(x.name, Styles)
                      /\ ~endsWith(x.name, State)}}

\* C18 as stated: every method of a returned doc is public, has no
\* constructor or lifecycle name, is a public method member of a class whose
\* name ends in none of Props, Styles, State, and has the return type void
\* exactly when that member declares no return type
C18_VoidIffUndeclared ==
    \A d \in ReturnedDocs :
        \A i \in 1..Len(d.methods) :
            LET m == d.methods[i]
            IN /\ m.visibility = "public"
               /\ m.name \notin LifecycleNames
               /\ \E sm \in PublicSourceMethodsAt(d.componentPath, m.name) :
                      m.returnType = t_void <=> ~IsSome(sm.returnType)

\* C18, amended: every method of a returned doc is public, has no constructor
\* or lifecycle name, is a public method member of a class whose name ends in
\* none of Props, Styles, State, and has the return type the member declares,
\* or void when it declares none (a member declared with the return type void
\* has the return type void too)
C18_ReturnTypeDeclaredOrVoid ==
    \A d \in ReturnedDocs :
        \A i \in 1..Len(d.methods) :
            LET m == d.methods[i]
            IN /\ m.visibility = "public"
               /\ m.name \notin LifecycleNames
               /\ \E sm \in PublicSourceMethodsAt(d.componentPath, m.name) :
                      m.returnType = IF IsSome(sm.returnType) THEN Val(sm.returnType)
                                     ELSE t_void

\* a doc was returned with a method declared without return type, one
\* declared void and one declared boolean, for a component whose behavior
\* source has private, protected and lifecycle methods and classes named
\* ...State and ...Styles with methods
C18_Witness ==
    /\ IsSome(returned)
    /\ Val(returned).componentPath = P_accordion
    /\ \E i, j, k \in 1..Len(Val(returned).methods) :
           /\ Val(returned).methods[i].name = "expand"
           /\ Val(returned).methods[j].name = "close"
           /\ Val(returned).methods[k].returnType = t_boolean
    /\ \E c \in Range(BehaviorDeclsAt(P_accordion)) :
           /\ c.kind = "class" /\ ~endsWith(c.name, State) /\ ~endsWith(c.name, Styles)
           /\ \E sm \in Range(c.methods) : "private" \in Range(sm.modifiers)
           /\ \E sm \in Range(c.methods) : "protected" \in Range(sm.modifiers)
           /\ \E sm \in Range(c.methods) : sm.name \in LifecycleNames
    /\ \E c \in Range(BehaviorDeclsAt(P_accordion)) : endsWith(c.name, State) /\ c.methods /= <<>>
    /\ \E c \in Range(BehaviorDeclsAt(P_accordion)) : endsWith(c.name, Styles) /\ c.methods /= <<>>

\* the component directory p cannot be listed, or neither representation
\* yields a properties source or a behavior source
NoSourceAt(p) ==
    \/ ~CanReaddir(p)
    \/ /\ ~Truthy(extractComponentSources(p).props)
       /\ ~Truthy(extractComponentSources(p).component)

\* C19: a generateComponentDoc call for such a directory returns (it does not
\* throw and does not run on), its value is null, and it logged the warning
\* that no source files were found or, for a directory that cannot be listed,
\* the error it caught
C19_MissingSourceReturnsNull ==
    \A p \in ComponentPaths :
        (call = Some([componentPath |-> p, category |-> "basic"]) /\ NoSourceAt(p))
        => /\ status = "idle"
           /\ returned = None
           /\ IF CanReaddir(p) THEN Warn("No source files found", p) \in Range(log)
              ELSE Err("Error generating docs", p) \in Range(log)

\* the call for a directory that exists and holds no source returned null
\* after the warning
C19_Witness ==
    /\ call = Some([componentPath |-> P_input, category |-> "basic"])
    /\ CanReaddir(P_input)
    /\ NoSourceAt(P_input)
    /\ returned = None
    /\ Warn("No source files found", P_input) \in Range(log)

\* a compiled artifact that is unreadable or not decodable: not a readable
\* file, not JSON, without sourcesContent, or with an empty sourcesContent
Undecodable(path) ==
    \/ ~CanReadFile(path)
    \/ fs[path].body.fmt /= "map"
    \/ ~IsSome(fs[path].body.sources)
    \/ Len(Val(fs[path].body.sources)) = 0

\* the artifacts extractComponentSources reads in a compiled-form directory:
\* per role the first entry with that ending
ArtifactsAt(p) ==
    IF ~CanReaddir(p) \/ FileName("index", ".tsx") \in Range(readdirSync(p))
                     \/ FileName("index", ".ts") \in Range(readdirSync(p))
    THEN {}
    ELSE {Append(p, f) : f \in {x \in Range(readdirSync(p)) : x.ext \in BrokenRoles}}

\* C20: a generateComponentDoc call for a compiled-form component one of
\* whose artifacts (properties, behavior or styles) is unreadable or not
\* decodable logs the failure for that artifact, returns null and leaves the
\* generator ready for the next call
C20_MalformedArtifactReturnsNull ==
    \A p \in ComponentPaths :
        \A a \in ArtifactsAt(p) :
            (call = Some([componentPath |-> p, category |-> "basic"]) /\ Undecodable(a))
            => /\ status = "idle"
               /\ \E i \in 1..Len(log) : log[i].level = "error" /\ log[i].about = a
               /\ returned = None

-----------------------------------------------------------------------------
\* the ancestor levels of a chain that starts at the name given, walked from
\* the artifacts: the name requested at each level and the descriptors its
\* artifact declares; fuel ends the walk of a chain that runs in a cycle
RECURSIVE LevelsFrom(_, _)
LevelsFrom(name, fuel) ==
    IF fuel = 0 THEN <<>>
    ELSE IF name = BaseProps
    THEN <<[from |-> name, props |-> getBaseProps(basePropsCache).props]>>
    ELSE LET path == findParentPropsFile(name)
             source == IF IsSome(path) THEN extractSourceContent(Val(path)).val ELSE None
             info == IF Truthy(source) THEN extractProps(Val(source)) ELSE None
         IN IF ~IsSome(info) THEN <<[from |-> name, props |-> <<>>]>>
            ELSE <<[from |-> name, props |-> Val(info).props]>>
                 \o (IF IsSome(Val(info).baseClass)
                     THEN LevelsFrom(Val(Val(info).baseClass), fuel - 1) ELSE <<>>)
LevelsAt(p) ==
    IF IsSome(DeclaredBaseAt(p)) THEN LevelsFrom(Val(DeclaredBaseAt(p)), MaxChain) ELSE <<>>

\* how many descriptors of a list carry a (name, inherited, inheritedFrom)
\* triple, and how many members of a declaration level carry a name
CountTriple(props, name, inherited, from) ==
    Cardinality({i \in 1..Len(props) :
                    /\ props[i].name = name
                    /\ props[i].inherited = inherited
                    /\ props[i].inheritedFrom = from})
CountName(props, name) == Cardinality({i \in 1..Len(props) : props[i].name = name})

\* a name no exclude-list that applies to the component removes
NeverExcluded(componentName, name) ==
    /\ name \notin ExcludedPropNames(componentName)
    /\ name \notin config.documentation.excludeInheritedProps

\* C25: in every returned doc, nested children included, a property name that
\* no exclude-list removes has one descriptor for every level of the chain
\* that declares it: one own descriptor (inherited false, no inheritedFrom)
\* when the component declares it, one descriptor tagged inherited from A for
\* every ancestor level A that declares it, and no other descriptor, so that
\* levels sharing a name are never collapsed into one
C25_LevelsNeverCollapsed ==
    \A d \in ReturnedDocs :
        LET own == OwnPropsAt(d.componentPath)
            levels == LevelsAt(d.componentPath)
        IN \A n \in Range(NamesOf(d.props)) \cup Range(NamesOf(own))
                    \cup UNION {Range(NamesOf(levels[k].props)) : k \in 1..Len(levels)} :
               NeverExcluded(d.componentName, n) =>
                   /\ CountTriple(d.props, n, FALSE, None) = CountName(own, n)
                   /\ \A k \in 1..Len(levels) :
                          CountTriple(d.props, n, TRUE, Some(levels[k].from))
                              = CountName(levels[k].props, n)
                   /\ CountName(d.props, n)
                          = CountName(own, n)
                            + Cardinality({k \in 1..Len(levels) :
                                              CountName(levels[k].props, n) = 1})

\* a doc was returned whose component declares a property that one of its
\* ancestor levels declares as well, and that holds a second property two
\* ancestor levels declare; the doc holds two descriptors of each
C25_Witness ==
    \E d \in ReturnedDocs :
        LET levels == LevelsAt(d.componentPath)
        IN /\ \E n \in Range(NamesOf(OwnPropsAt(d.componentPath))) :
                  /\ NeverExcluded(d.componentName, n)
                  /\ \E k \in 1..Len(levels) : CountName(levels[k].props, n) = 1
                  /\ CountName(d.props, n) = 2
           /\ \E m \in Range(NamesOf(d.props)) :
                  /\ NeverExcluded(d.componentName, m)
                  /\ \E k, l \in 1..Len(levels) :
                         /\ k < l
                         /\ CountName(levels[k].props, m) = 1
                         /\ CountName(levels[l].props, m) = 1
                  /\ CountName(d.props, m) = 2

-----------------------------------------------------------------------------
\* the class names findParentPropsFile is looked at for: the ancestor names of
\* the libraries, a name with the suffix Component and a name without suffix
c_AccordionPaneComponent ==
    <<"A", "c", "c", "o", "r", "d", "i", "o", "n", "P", "a", "n", "e",
      "C", "o", "m", "p", "o", "n", "e", "n", "t">>
LookupNames == AncestorNames \cup {c_AccordionPaneComponent, c_WmAccordion}

\* the candidate stems as the description lists them: the lower-cased base
\* name, the hyphen-cased base name and, for a base name that starts with Wm,
\* the two again with the prefix removed
StemsOf(className) ==
    LET baseName == StripSuffix(StripSuffix(className, Props), Component)
        rest == SubSeq(baseName, Len(Wm) + 1, Len(baseName))
        stems == <<toLowerCase(baseName), toKebab(baseName)>>
                 \o (IF startsWith(baseName, Wm) THEN <<toLowerCase(rest), toKebab(rest)>>
                     ELSE <<>>)
    IN [i \in 1..Len(stems) |-> Concat(stems[i])]

\* the properties artifacts with a stem below a source root, every directory
\* on the way to them being one that can be listed
ArtifactsNamed(root, stem) ==
    {p \in DOMAIN fs :
        /\ Len(p) >= 2
        /\ p[1] = DirName(root)
        /\ fs[p].kind = "file"
        /\ Last(p) = FileName(stem, ".props.js.map")
        /\ \A k \in 1..(Len(p) - 1) : CanReaddir(SubSeq(p, 1, k))}
Matches(stem) == ArtifactsNamed("components", stem) \cup ArtifactsNamed("core", stem)

\* C26: for every class name, findParentPropsFile returns null exactly when no
\* candidate stem names a properties artifact below 'components' or 'core';
\* otherwise it returns an artifact whose stem is a candidate such that no
\* candidate listed before it names an artifact in either root, and an
\* artifact below 'core' only when that candidate names none below
\* 'components'
C26_FirstCandidateFirstRoot ==
    \A className \in LookupNames :
        LET found == findParentPropsFile(className)
            stems == StemsOf(className)
        IN /\ ~IsSome(found) <=> \A i \in 1..Len(stems) : Matches(stems[i]) = {}
           /\ IsSome(found) =>
                  \E i \in 1..Len(stems) :
                      /\ Val(found) \in Matches(stems[i])
                      /\ \A j \in 1..(i - 1) : Matches(stems[j]) = {}
                      /\ Val(found) \in ArtifactsNamed("core", stems[i])
                             => ArtifactsNamed("components", stems[i]) = {}

\* the chain BaseInputProps -> NavProps -> WmNavProps was resolved on a library
\* where each lookup had a choice: baseinput below 'components' against
\* base-input below 'core', nav below both roots, and wm-nav below 'core'
\* against nav below 'components'; WmNavProps came from core/wm-nav
C26_Witness ==
    /\ \E i \in 1..Len(resolutions) :
           /\ i + 2 <= Len(resolutions)
           /\ SameChain(i, i + 2)
           /\ resolutions[i].returned
           /\ resolutions[i].name = c_BaseInputProps
           /\ resolutions[i + 1].name = c_NavProps
           /\ resolutions[i + 2].name = c_WmNavProps
           /\ \E k \in 1..Len(resolutions[i + 2].props) :
                  resolutions[i + 2].props[k].name = n_size
    /\ ArtifactsNamed("core", "base-input") /= {}
    /\ ArtifactsNamed("components", "nav") /= {}
    /\ ArtifactsNamed("core", "nav") /= {}
    /\ findParentPropsFile(c_WmNavProps)
           = Some(Append(P_core, FileName("wm-nav", ".props.js.map")))
    /\ findParentPropsFile(c_NavProps)
           = Some(Append(P_input, FileName("nav", ".props.js.map")))
    /\ findParentPropsFile(c_AccordionPaneComponent)
           = Some(Append(P_pane, FileName("accordionpane", ".props.js.map")))
    /\ findParentPropsFile(c_GoneProps) = None

-----------------------------------------------------------------------------
\* the texts of the library: the content of every text file and the embedded
\* source of every decodable artifact
TextsOfLibrary ==
    {fs[p].body.text : p \in {q \in DOMAIN fs : fs[q].kind = "file" /\ fs[q].body.fmt = "text"}}
    \cup {Val(fs[p].body.sources)[1] :
             p \in {q \in DOMAIN fs : /\ fs[q].kind = "file" /\ fs[q].body.fmt = "map"
                                      /\ IsSome(fs[q].body.sources)
                                      /\ Len(Val(fs[q].body.sources)) > 0}}

\* the first call site of a name in a text, and the signature of an argument
\* list: its arguments without the empty ones and the target references
FirstCallSite(calls, name) ==
    CHOOSE k \in 1..Len(calls) :
        calls[k].name = name /\ \A l \in 1..(k - 1) : calls[l].name /= name
TargetReferences == {"target", "this.props.target"}
SignatureOf(args) ==
    <<"(">> \o JoinComma(SelectSeq(args, LAMBDA a : a /= "" /\ a \notin TargetReferences))
            \o <<")">>

\* C27: for every text of the library, extractEventCallbacks returns one entry
\* for every event name that has a call site and no other entry, in the order
\* of the first call sites, and the parameters of an entry are the signature
\* of the first call site of its name: the arguments without the target
\* references, "()" when none is left
C27_FirstCallSiteDecides ==
    \A text \in TextsOfLibrary :
        LET events == extractEventCallbacks(text)
            calls == text.calls
        IN /\ \A i, j \in 1..Len(events) : i /= j => events[i].name /= events[j].name
           /\ {events[i].name : i \in 1..Len(events)} = {calls[k].name : k \in 1..Len(calls)}
           /\ \A i \in 1..Len(events) :
                  events[i].parameters
                      = SignatureOf(calls[FirstCallSite(calls, events[i].name)].args)
           /\ \A i, j \in 1..Len(events) :
                  i < j => FirstCallSite(calls, events[i].name)
                               < FirstCallSite(calls, events[j].name)

\* a doc was returned whose events onTap and onLong come from
\* core/tappable.component.js, where each name has a second call site with
\* other arguments; onTap has the signature of the first one, (ev, pos)
C27_Witness ==
    /\ IsSome(returned)
    /\ call = Some([componentPath |-> P_accordion, category |-> "basic"])
    /\ CanReadFile(Append(P_core, FileName("tappable", ".component.js")))
    /\ LET calls == readFileSync(Append(P_core, FileName("tappable", ".component.js"))).calls
       IN \E k, l \in 1..Len(calls) :
              /\ k < l
              /\ calls[k].name = n_onTap
              /\ calls[l].name = n_onTap
              /\ SignatureOf(calls[k].args) /= SignatureOf(calls[l].args)
    /\ HasEvent(Val(returned).events, n_onTap)
    /\ HasEvent(Val(returned).events, n_onLong)
    /\ EventNamed(Val(returned).events, n_onTap).parameters = <<"(", "ev", ",", "pos", ")">>

-----------------------------------------------------------------------------
\* the unfiltered events of the component at p: the declared events of its
\* unfiltered properties merged with its call-site events
EventsAt(p) == MergeEvents(DeclaredEventsAt(p), CallbackEvents(p, basename(p)).events)

\* a list is a selection of another that keeps the order of the entries
SelectionOf(kept, all) == kept = SelectSeq(all, LAMBDA x : x \in Range(kept))

\* C28: every returned doc, nested children included, differs from the
\* unfiltered doc of its component in props, methods and styles only:
\* componentName, componentPath, category and baseClass are the unfiltered
\* ones, events are the events of the unfiltered properties and call sites,
\* every child is the doc its own generation returns, the three lists are
\* selections of the unfiltered lists in their order, and filtering the doc
\* again gives the same doc
C28_FilterFrame ==
    \A d \in ReturnedDocs :
        /\ d.componentName = basename(d.componentPath)
        /\ d.category = Val(call).category
        /\ d.baseClass = DeclaredBaseAt(d.componentPath)
        /\ d.events = EventsAt(d.componentPath)
        /\ SelectionOf(d.props, AllPropsAt(d.componentPath))
        /\ SelectionOf(d.methods, MethodsAt(d.componentPath))
        /\ SelectionOf(d.styles, StylesAt(d.componentPath))
        /\ IsSome(d.children) =>
               \A i \in 1..Len(Val(d.children)) :
                   Some(Val(d.children)[i])
                       = generateComponentDoc(Val(d.children)[i].componentPath, d.category,
                                              basePropsCache, MaxNesting).doc
        /\ filterComponentDoc(d) = d

\* a doc with a child was returned from which the filter removed a property,
\* a method and a style, entries of each list surviving, and
\* whose events hold once although every property named once is excluded
C28_Witness ==
    /\ IsSome(returned)
    /\ IsSome(Val(returned).children)
    /\ LET d == Val(returned)
       IN /\ Len(d.props) > 1 /\ Len(d.props) < Len(AllPropsAt(d.componentPath))
          /\ Len(d.methods) > 1 /\ Len(d.methods) < Len(MethodsAt(d.componentPath))
          /\ Len(d.styles) > 0 /\ Len(d.styles) < Len(StylesAt(d.componentPath))
          /\ HasEvent(d.events, n_once)
          /\ \A i \in 1..Len(d.props) : d.props[i].name /= n_once

-----------------------------------------------------------------------------
\* the Props declarations of a text: the classes, interfaces and type-literal
\* aliases whose name ends in Props, in traversal order
PropsDeclsOf(text) ==
    SelectSeq(text.decls, LAMBDA d :
        /\ endsWith(d.name, Props)
        /\ (d.kind \in {"class", "interface"} \/ (d.kind = "type" /\ d.literal)))

\* the text a root location holds, when it can be read and decoded
RootTextAt(p) ==
    IF ~CanReadFile(p) THEN None
    ELSE IF p = BaseComponentPath
    THEN (IF fs[p].body.fmt = "map" /\ IsSome(fs[p].body.sources)
             /\ Len(Val(fs[p].body.sources)) > 0
          THEN Some(Val(fs[p].body.sources)[1]) ELSE None)
    ELSE Some(readFileSync(p))

\* a root location qualifies when the last Props declaration of its text is
\* named BaseProps
Qualifies(p) ==
    /\ Truthy(RootTextAt(p))
    /\ PropsDeclsOf(Val(RootTextAt(p))) /= <<>>
    /\ Last(PropsDeclsOf(Val(RootTextAt(p)))).name = BaseProps

\* C30: for every text of the library, extractProps returns null when the
\* text has no Props declaration and otherwise the members, the name and the
\* ancestor of the last one, whatever the earlier ones hold; and the root
\* property set a generator without cache computes is the member list of a
\* root location whose last Props declaration is named BaseProps, and is
\* empty when no root location has such a text
C30_LastPropsDeclarationWins ==
    /\ \A text \in TextsOfLibrary :
           LET decls == PropsDeclsOf(text)
               last == Last(decls)
           IN IF decls = <<>> THEN extractProps(text) = None
              ELSE /\ IsSome(extractProps(text))
                   /\ Val(extractProps(text)).className = last.name
                   /\ Val(extractProps(text)).baseClass
                          = (IF last.kind /= "type" /\ last.heritage /= <<>>
                             THEN Some(last.heritage[1]) ELSE None)
                   /\ NamesOf(Val(extractProps(text)).props)
                          = NamesOf(SelectSeq(last.members, LAMBDA m : m.isProperty))
    /\ LET root == getBaseProps(None).props
       IN /\ root /= <<>> =>
                 \E p \in RootLocations :
                     /\ Qualifies(p)
                     /\ NamesOf(root)
                            = NamesOf(SelectSeq(Last(PropsDeclsOf(Val(RootTextAt(p)))).members,
                                                LAMBDA m : m.isProperty))
          /\ (\A p \in RootLocations : ~Qualifies(p)) => root = <<>>

\* BaseProps was resolved on a library whose root artifact declares BaseProps
\* with a member and, after it, a second Props declaration: the resolution
\* returned no descriptor and the cache stayed empty
C30_Witness ==
    /\ Truthy(RootTextAt(BaseComponentPath))
    /\ LET decls == PropsDeclsOf(Val(RootTextAt(BaseComponentPath)))
       IN /\ Len(decls) = 2
          /\ decls[1].name = BaseProps
          /\ decls[1].members /= <<>>
          /\ decls[2].name /= BaseProps
    /\ \E i \in 1..Len(resolutions) :
           /\ resolutions[i].name = BaseProps
           /\ resolutions[i].returned
           /\ resolutions[i].props = <<>>
           /\ BaseComponentPath \in Range(resolutions[i].reads)
    /\ basePropsCache = None
    /\ IsSome(returned)

-----------------------------------------------------------------------------
\* the child-component mapping of a component name, and the doc the pipeline
\* yields for one entry of the component at p: none when the resolved path
\* does not exist or the child yields no doc
ChildConfigOf(componentName) ==
    IF componentName \in DOMAIN config.childComponents
    THEN config.childComponents[componentName] ELSE <<>>
ChildDocOf(p, category, entry) ==
    IF ~existsSync(Resolve(p, entry.relativePath)) THEN None
    ELSE generateComponentDoc(Resolve(p, entry.relativePath), category, basePropsCache, 2).doc
ExpectedChildren(p, category) ==
    LET entries == ChildConfigOf(basename(p))
    IN Flatten([i \in 1..Len(entries) |-> ChildDocOf(p, category, entries[i])])

\* the pipeline of the component at p yields a doc, its children left aside
OwnPipelineYields(p) ==
    /\ CanReaddir(p)
    /\ (Truthy(extractComponentSources(p).props) \/ Truthy(extractComponentSources(p).component))
    /\ ~CallbackEvents(p, basename(p)).threw

\* C23: the children of every returned doc, nested children included, are the
\* docs the pipeline yields for the entries of the mapping of its component
\* name, each path resolved against the component's directory, in the order
\* of the mapping and without the entries whose path is missing or whose
\* child yields no doc; children is absent when no entry yields a doc; and a
\* call that returns gives a doc whenever the component's own pipeline yields
\* one, whatever became of its children
C23_ChildrenInMappingOrder ==
    /\ \A d \in ReturnedDocs :
           d.children = (IF ExpectedChildren(d.componentPath, d.category) = <<>> THEN None
                         ELSE Some(ExpectedChildren(d.componentPath, d.category)))
    /\ (status = "idle" /\ IsSome(call)) =>
           (IsSome(returned) <=> OwnPipelineYields(Val(call).componentPath))

\* the accordion doc was returned under a mapping of four entries: the path
\* of the first is missing, the second yields no doc, and the docs of the
\* third and the fourth are the children, in this order
C23_Witness ==
    /\ IsSome(returned)
    /\ call = Some([componentPath |-> P_accordion, category |-> "basic"])
    /\ Len(ChildConfigOf("accordion")) = 4
    /\ ~existsSync(Resolve(P_accordion, ChildConfigOf("accordion")[1].relativePath))
    /\ Resolve(P_accordion, ChildConfigOf("accordion")[2].relativePath) = P_locked
    /\ ChildDocOf(P_accordion, "basic", ChildConfigOf("accordion")[2]) = None
    /\ IsSome(Val(returned).children)
    /\ Len(Val(Val(returned).children)) = 2
    /\ Val(Val(returned).children)[1].componentPath = P_baseinput
    /\ Val(Val(returned).children)[2].componentPath = P_pane
    /\ \E i \in 1..Len(log) : log[i].msg = "Child component path not found"
    /\ \E i \in 1..Len(log) : log[i] = Err("Error generating docs", P_locked)

-----------------------------------------------------------------------------
\* C29: a call of generateComponentDoc never enters the recursion into
\* configured children without leaving it again: whatever the mapping, the
\* frames opened for child components all return
C29_ChildRecursionEnds ==
    status /= "children"

-----------------------------------------------------------------------------
(* Properties of the generate command.  They speak about the last command  *)
(* of a behavior of RunSpec.                                               *)

\* the components generateAllDocs announced, in the order of the announcements
Attempted ==
    LET said == SelectSeq(log, LAMBDA l : l.level = "log" /\ l.msg = "Generating docs for")
    IN [i \in 1..Len(said) |-> said[i].about]

\* the last command was generate --all and generateAllDocs returned to it
BatchReturned ==
    /\ IsSome(command) /\ Val(command).all
    /\ IsSome(exit) /\ Val(exit).by = "end"

\* the components found whose own pipeline yields a doc
Succeeded == SelectSeq(Val(discovered), LAMBDA c : OwnPipelineYields(c.path))

\* C21: when generateAllDocs returns, it has announced and processed every
\* component findAllComponents found, in the order found, whichever of them
\* failed, and the list it returns holds one doc for each component whose
\* own pipeline yields one and none for the others, in the order found; each
\* is the doc a call for that component alone returns
C21_BatchIsolatesFailures ==
    BatchReturned =>
        /\ IsSome(discovered)
        /\ Attempted = [i \in 1..Len(Val(discovered)) |-> Val(discovered)[i].path]
        /\ Len(docs) = Len(Succeeded)
        /\ \A i \in 1..Len(Succeeded) :
               /\ docs[i].componentPath = Succeeded[i].path
               /\ docs[i].category = Succeeded[i].category
               /\ Some(docs[i]) =
                      generateComponentDoc(Succeeded[i].path, Succeeded[i].category, None, 1).doc

\* a batch found three components; the first and the third failed, and the
\* list returned holds the doc of the second alone
C21_Witness ==
    /\ BatchReturned
    /\ Len(Val(discovered)) = 3
    /\ Attempted = <<P_accordion, P_pane, P_baseinput>>
    /\ ~OwnPipelineYields(P_accordion)
    /\ ~OwnPipelineYields(P_baseinput)
    /\ Len(docs) = 1
    /\ docs[1].componentPath = P_pane

\* the root source directory is missing or cannot be listed
RootUnusable == ~CanReaddir(<<>>)

\* the last command ended abnormally: with a non-zero exit code
EndedAbnormally == IsSome(exit) /\ Val(exit).code /= 0

\* C22: a generate command ends abnormally only when the root source
\* directory is missing or cannot be listed, and it then ends before any
\* component was looked for or processed; a component that yields no doc, a
\* requested component that is not found and a directory that cannot be
\* listed during discovery do not make the command end abnormally
C22_OnlyRootIsFatal ==
    EndedAbnormally =>
        /\ RootUnusable
        /\ discovered = None
        /\ Attempted = <<>>
        /\ call = None

\* the components a command found whose directory name is in
\* config.excludeComponents
ExcludedFound ==
    IF IsSome(discovered)
    THEN SelectSeq(Val(discovered), LAMBDA c : basename(c.path) \in config.excludeComponents)
    ELSE <<>>

\* C24: no component whose name is in config.excludeComponents is in the
\* list findAllComponents returns, whatever its category, and no doc of the
\* list generateAllDocs returns is the doc of such a component
C24_ExcludedNeverDiscovered ==
    /\ ExcludedFound = <<>>
    /\ \A i \in 1..Len(docs) : basename(docs[i].componentPath) \notin config.excludeComponents

=============================================================================
